---- MODULE Spec2Model ----
(***************************************************************************)
(* ASKql query pipeline: AskQLWorkflow (askql-workflow.ts) driving the     *)
(* LangGraph state graph load_schema -> nl_to_sql -> validate_sql ->       *)
(* (experiment_alternatives) -> execute_sql -> interpret_results |         *)
(* handle_error, its collaborators, and the WorkflowStreamingService sink. *)
(*                                                                         *)
(* Optional values (TypeScript `x?: T`) are sequences: << >> is undefined, *)
(* <<v>> is the value v.  Error texts built by template literals are the   *)
(* sequence of their parts, e.g. <<"SQL validation failed: ", msg>>.       *)
(***************************************************************************)
EXTENDS Integers, Sequences, FiniteSets, TLC

VARIABLES
  pc,         \* run -> position of processQuery: idle, a node name, __end__, threw, returned, raised
  st,         \* run -> the AskQLState threaded through the graph
  args,       \* run -> [question, sessionId] the arguments of processQuery
  result,     \* run -> << >> or <<state>> : the value processQuery resolved with
  exc,        \* run -> message of the exception in flight (pc = "threw") or escaped (pc = "raised")
  trace,      \* run -> sequence of node names executed by workflow.invoke
  emits,      \* run -> sequence of streamingService calls made, [step, status]
  calls,      \* run -> sequence of collaborator calls made, with their inputs
  threwAt,    \* run -> set of collaborators that threw during the run
  sinkFaulty, \* run -> TRUE when the streamingService may throw for this run
  sinkThrew,  \* run -> TRUE once some streamingService call threw
  oracle,     \* collaborator -> << >> or <<outcome>> : the response fixed for this question
  active,     \* set of runs that are invoked
  rstate,     \* a state snapshot handed to a routing function or to a node
  decision,   \* << >> or <<edge>> : the edge name the routing function returned
  resp,       \* run -> collaborator -> << >> or <<outcome>> : the responses the run was given
  response,   \* run -> << >> or <<AskQLResponse>> : what AskQLService answered
  applied,    \* << >> or <<[node, o, res, next]>> : a node applied to the snapshot rstate
  race,       \* one SQLExecutionAgent.executeSQL call: its input, the database, the timer, its output
  gateway     \* AskQLGateway: the sessions map, the sockets gone, what each socket received

vars == <<pc, st, args, result, exc, trace, emits, calls, threwAt, sinkFaulty,
          sinkThrew, oracle, active, rstate, decision, resp, response, applied, race,
          gateway>>

runVars == <<pc, st, args, result, exc, trace, emits, calls, threwAt, sinkFaulty,
             sinkThrew, oracle, active, resp, response, race, gateway>>

(***************************************************************************)
(* Optional values and JavaScript truthiness                               *)
(***************************************************************************)
Undefined == << >>
Some(v) == <<v>>
IsSet(x) == x # << >>
Val(x) == x[1]

\* `if (s)` for an optional string: undefined and "" are both falsy
TruthyStr(s) == s # ""
\* `if (n)` for an optional number: undefined and 0 are both falsy
TruthyNum(x) == IsSet(x) /\ Val(x) # 0
\* `x || 0` for an optional number
OrZero(x) == IF TruthyNum(x) THEN Val(x) ELSE 0

Last(s) == s[Len(s)]

(***************************************************************************)
(* Program constants                                                       *)
(***************************************************************************)
ConfidenceThreshold == 70
MaxConfidence == 100
MAX_ROWS == 1000
RetryLimit == 2

(***************************************************************************)
(* Bounds of the model                                                     *)
(***************************************************************************)
MaxAlts == 2

\* run A is a processQuery invocation; run B, when active, is an earlier
\* invocation given the same question and the same collaborator responses,
\* completed before A is invoked.  Run C, when active, is one more invocation:
\* with B it is the invocation between B and A, given the same responses;
\* without B it runs concurrently with A and is given responses of its own.
Runs == {"A", "B", "C"}

(***************************************************************************)
(* SQL text.  A query is the sequence of its whitespace-separated tokens;  *)
(* the token " " stands for leading or trailing blanks and ";" for a       *)
(* trailing semicolon.                                                     *)
(***************************************************************************)
QCount == <<"SELECT", "COUNT(*)", "FROM", "orders">>
QList == <<" ", "select", "*", "FROM", "orders", ";">>
QDelete == <<"DELETE", "FROM", "orders">>
QAltList == <<"SELECT", "id", "FROM", "orders">>
QAltLimit == <<"select", "*", "FROM", "orders", "limit", "5000">>

\* String.prototype.toUpperCase on one token
UpperTok(t) ==
  CASE t = "select" -> "SELECT"
    [] t = "limit" -> "LIMIT"
    [] t = "delete" -> "DELETE"
    [] OTHER -> t

ToUpperCase(q) == [i \in 1..Len(q) |-> UpperTok(q[i])]

RECURSIVE TrimStart(_)
TrimStart(q) ==
  IF Len(q) > 0 /\ q[1] = " " THEN TrimStart(Tail(q)) ELSE q

RECURSIVE TrimEnd(_)
TrimEnd(q) ==
  IF Len(q) > 0 /\ q[Len(q)] = " " THEN TrimEnd(SubSeq(q, 1, Len(q) - 1)) ELSE q

\* String.prototype.trim
Trim(q) == TrimEnd(TrimStart(q))

\* q.trim().toUpperCase().startsWith('SELECT')
StartsWithSelect(q) ==
  LET t == ToUpperCase(Trim(q))
  IN  Len(t) > 0 /\ t[1] = "SELECT"

\* `!state.sqlQuery` : undefined or the empty string
FalsyQuery(x) == ~IsSet(x) \/ Val(x) = << >>

(***************************************************************************)
(* Collaborator outcomes                                                   *)
(***************************************************************************)
SchemaOutcomes ==
  {[threw |-> FALSE, schema |-> "orders", msg |-> ""],
   [threw |-> TRUE, schema |-> "", msg |-> "db unreachable"]}

ConfidenceValues == {0, ConfidenceThreshold - 1, ConfidenceThreshold, MaxConfidence}

\* what the language model behind NLToSQLAgent answers
LLMOutcomes ==
  {[threw |-> TRUE, sqlQuery |-> << >>, explanation |-> "", confidence |-> 0,
    msg |-> "llm unavailable"]}
  \cup
  {[threw |-> FALSE, sqlQuery |-> q, explanation |-> "translated", confidence |-> c,
    msg |-> ""] : q \in {QCount, QList, QDelete}, c \in ConfidenceValues}

RiskLevels == {"LOW", "MEDIUM", "HIGH"}

ValidatorOutcomes ==
  {[threw |-> TRUE, isValid |-> FALSE, shouldExecute |-> FALSE, riskLevel |-> "HIGH",
    msg |-> "validator crashed"]}
  \cup
  {[threw |-> FALSE, isValid |-> v, shouldExecute |-> e, riskLevel |-> k, msg |-> ""] :
     v \in BOOLEAN, e \in BOOLEAN, k \in RiskLevels}

AltPool ==
  {[query |-> QAltList, explanation |-> "alt list", confidence |-> ConfidenceThreshold - 1],
   [query |-> QAltLimit, explanation |-> "alt limit", confidence |-> MaxConfidence - 15],
   [query |-> QDelete, explanation |-> "alt delete", confidence |-> MaxConfidence - 15]}

AltLists == UNION {[1..n -> AltPool] : n \in 0..MaxAlts}

\* experimentWithQuery: throws, or answers with `alternatives` (possibly missing)
GeneratorOutcomes ==
  {[threw |-> TRUE, alternatives |-> Undefined, msg |-> "generator crashed"],
   [threw |-> FALSE, alternatives |-> Undefined, msg |-> ""]}
  \cup
  {[threw |-> FALSE, alternatives |-> Some(l), msg |-> ""] : l \in AltLists}

\* the database behind executeReadOnlyQuery, or a failure of the executor call itself
NaturalRowCounts == {5, MAX_ROWS + 1}

ExecutorOutcomes ==
  {[kind |-> "agent_throw", rows |-> 0, msg |-> "executor crashed"],
   [kind |-> "db_throw", rows |-> 0, msg |-> "relation does not exist"],
   [kind |-> "timeout", rows |-> 0, msg |-> ""]}
  \cup
  {[kind |-> "rows", rows |-> n, msg |-> ""] : n \in NaturalRowCounts}

\* shows: the visualizations whose should_show flag the interpreter set
InterpreterOutcomes ==
  {[threw |-> FALSE, summary |-> "There are 5 orders.", shows |-> k, msg |-> ""] :
     k \in {{}, {"bar", "table"}}}
  \cup
  {[threw |-> TRUE, summary |-> "", shows |-> {}, msg |-> "Failed to interpret results: llm"]}

(***************************************************************************)
(* SQLExecutionAgent (sql-execution.agent.ts)                              *)
(***************************************************************************)
TimeoutMessage == "Query execution timed out after 30000ms"

RECURSIVE StripSemicolons(_)
\* replace(/;+$/, '')
StripSemicolons(q) ==
  IF Len(q) > 0 /\ q[Len(q)] = ";" THEN StripSemicolons(SubSeq(q, 1, Len(q) - 1)) ELSE q

AggregateTokens == {"COUNT(*)", "COUNT(", "SUM(", "AVG(", "MAX(", "MIN("}

isAggregateQuery(q) == \E i \in 1..Len(q) : q[i] \in AggregateTokens

IncludesLimit(q) == \E i \in 1..Len(q) : UpperTok(q[i]) = "LIMIT"

LimitToken == "1000"

\* the text handed to databaseService.executeReadOnlyQuery
queryToExecute(sqlQuery) ==
  \* q, the trimmed text without trailing semicolons, bound as a value
  CHOOSE text \in {IF ~IncludesLimit(q) /\ ~isAggregateQuery(q)
                   THEN q \o <<"LIMIT", LimitToken>>
                   ELSE q : q \in {StripSemicolons(Trim(sqlQuery))}} : TRUE

LimitValue(t) ==
  CASE t = LimitToken -> MAX_ROWS
    [] t = "5000" -> 5000
    [] OTHER -> 0

\* rows the database returns for a query whose unlimited answer has n rows
DatabaseRows(q, n) ==
  IF \E i \in 1..(Len(q) - 1) : UpperTok(q[i]) = "LIMIT"
  THEN LET i == CHOOSE j \in 1..(Len(q) - 1) : UpperTok(q[j]) = "LIMIT"
           l == LimitValue(q[i + 1])
       IN  IF n < l THEN n ELSE l
  ELSE n

Refusal(m) ==
  [success |-> FALSE, error |-> Some(m), rowCount |-> 0, data |-> Undefined]

\* SQLExecutionAgent.executeSQL without the riskLevel check
AgentExecuteSQL_norisk(input, o) ==
  IF ~input.isValidated
  THEN [out |-> Refusal("Query must be validated before execution"), sent |-> << >>]
  ELSE IF ~StartsWithSelect(input.sqlQuery)
  THEN [out |-> Refusal("Only SELECT queries are allowed"), sent |-> << >>]
  ELSE LET q == queryToExecute(input.sqlQuery)
       IN  CASE o.kind = "rows" ->
                  LET n == DatabaseRows(q, o.rows)
                  IN  [out |-> [success |-> TRUE, error |-> Undefined, rowCount |-> n,
                                data |-> Some(n)],
                       sent |-> <<q>>]
             [] o.kind = "timeout" -> [out |-> Refusal(TimeoutMessage), sent |-> <<q>>]
             [] OTHER -> [out |-> Refusal(o.msg), sent |-> <<q>>]

\* SQLExecutionAgent.executeSQL without the isValidated check
AgentExecuteSQL_unvalidated(input, o) ==
  IF input.riskLevel = "HIGH"
  THEN [out |-> Refusal("High-risk queries are not allowed to execute"), sent |-> << >>]
  ELSE IF ~StartsWithSelect(input.sqlQuery)
  THEN [out |-> Refusal("Only SELECT queries are allowed"), sent |-> << >>]
  ELSE LET q == queryToExecute(input.sqlQuery)
       IN  CASE o.kind = "rows" ->
                  LET n == DatabaseRows(q, o.rows)
                  IN  [out |-> [success |-> TRUE, error |-> Undefined, rowCount |-> n,
                                data |-> Some(n)],
                       sent |-> <<q>>]
             [] o.kind = "timeout" -> [out |-> Refusal(TimeoutMessage), sent |-> <<q>>]
             [] OTHER -> [out |-> Refusal(o.msg), sent |-> <<q>>]

\* SQLExecutionAgent.executeSQL applied to `input`, the database answering with `o`.
\* out is the SQLExecutionOutput, sent the queries passed to the database.
AgentExecuteSQL(input, o) ==
  IF ~input.isValidated
  THEN [out |-> Refusal("Query must be validated before execution"), sent |-> << >>]
  ELSE IF input.riskLevel = "HIGH"
  THEN [out |-> Refusal("High-risk queries are not allowed to execute"), sent |-> << >>]
  ELSE IF ~StartsWithSelect(input.sqlQuery)
  THEN [out |-> Refusal("Only SELECT queries are allowed"), sent |-> << >>]
  ELSE LET q == queryToExecute(input.sqlQuery)
       IN  CASE o.kind = "rows" ->
                  LET n == DatabaseRows(q, o.rows)
                  IN  [out |-> [success |-> TRUE, error |-> Undefined, rowCount |-> n,
                                data |-> Some(n)],
                       sent |-> <<q>>]
             [] o.kind = "timeout" -> [out |-> Refusal(TimeoutMessage), sent |-> <<q>>]
             [] OTHER -> [out |-> Refusal(o.msg), sent |-> <<q>>]

(***************************************************************************)
(* NLToSQLAgent.convertNLToSQL (nl-to-sql.agent.ts): the model's answer is *)
(* rejected unless it is a SELECT; every failure is rethrown wrapped.      *)
(***************************************************************************)
AgentConvertNLToSQL(o) ==
  IF o.threw
  THEN [o EXCEPT !.msg = "NL to SQL conversion failed: llm unavailable"]
  ELSE IF ~StartsWithSelect(o.sqlQuery)
  THEN [o EXCEPT !.threw = TRUE,
                 !.msg = "NL to SQL conversion failed: Generated query is not a SELECT statement"]
  ELSE o

(***************************************************************************)
(* AskQLState and the result of running one graph node                     *)
(***************************************************************************)
InitialState(question) ==
  [originalQuestion |-> question,
   sessionId |-> "",
   schema |-> Undefined,
   sqlQuery |-> Undefined,
   queryExplanation |-> Undefined,
   sqlConfidence |-> Undefined,
   validationResult |-> Undefined,
   alternativeQueries |-> Undefined,
   executionResult |-> Undefined,
   finalResponse |-> Undefined,
   error |-> Undefined,
   retryCount |-> Some(0)]

\* `if (state.sessionId)` / `if (sessionId)`: the guard of every streamingService call
HasSession_always(sid) == TRUE

HasSession(sid) == TruthyStr(sid)

\* `if (state.error)`
HasError(s) == s.error # << >>

SinkMessage == "socket write failed"

Ev(step, status) == [step |-> step, status |-> status]

Call(c, q, v, k) == [c |-> c, q |-> q, v |-> v, k |-> k]

\* the node returned: s is the state after merging the returned fields
Ret(s, ev, cl, ct, sinkT) ==
  [s |-> s, threw |-> FALSE, msg |-> "", ev |-> ev, cl |-> cl, ct |-> ct, sinkT |-> sinkT]

\* the node threw: a streamingService call outside any try block failed
Thrown(s, ev, cl, ct) ==
  [s |-> s, threw |-> TRUE, msg |-> SinkMessage, ev |-> ev, cl |-> cl, ct |-> ct,
   sinkT |-> TRUE]

\* a catch block that reports the failure with emitWorkflowError
CatchBlock_workflow(s, S, F, step, prefix, m, ev, cl, ct, sinkT) ==
  LET ev2 == IF S THEN Append(ev, Ev("workflow", "error")) ELSE ev
  IN  IF S /\ "error" \in F
      THEN Thrown(s, ev2, cl, ct)
      ELSE Ret([s EXCEPT !.error = <<prefix, m>>], ev2, cl, ct, sinkT)

\* a catch block that swallows the failure: emitError, then `return {}`
CatchBlock_swallow(s, S, F, step, prefix, m, ev, cl, ct, sinkT) ==
  LET ev2 == IF S THEN Append(ev, Ev(step, "error")) ELSE ev
  IN  IF S /\ "error" \in F
      THEN Thrown(s, ev2, cl, ct)
      ELSE Ret(s, ev2, cl, ct, sinkT)

\* the catch block shared by the nodes: emitError for the step, then
\* return { error: `${prefix}${error.message}` }
CatchBlock(s, S, F, step, prefix, m, ev, cl, ct, sinkT) ==
  LET ev2 == IF S THEN Append(ev, Ev(step, "error")) ELSE ev
  IN  IF S /\ "error" \in F
      THEN Thrown(s, ev2, cl, ct)
      ELSE Ret([s EXCEPT !.error = <<prefix, m>>], ev2, cl, ct, sinkT)

(***************************************************************************)
(* Graph nodes (askql-workflow.ts).  s is the state the node receives, o   *)
(* the outcome of its collaborator, F the kinds of streamingService calls  *)
(* (starting, processing, completed, error) that throw during this node.   *)
(***************************************************************************)
EmitKinds == {"starting", "processing", "completed", "error"}

\* loadSchema with `return { schema }` inside the `if (state.sessionId)` block
loadSchema_inside(s, o, F) ==
  LET S == HasSession(s.sessionId)
      e0 == IF S THEN <<Ev("schema_loading", "starting")>> ELSE << >>
      cl == <<Call("schema", << >>, FALSE, "")>>
  IN  IF S /\ "starting" \in F
      THEN Thrown(s, e0, << >>, {})
      ELSE IF o.threw
      THEN CatchBlock(s, S, F, "schema_loading", "Failed to load database schema: ",
                      o.msg, e0, cl, {"schema"}, FALSE)
      ELSE LET e1 == IF S THEN Append(e0, Ev("schema_loading", "completed")) ELSE e0
           IN  IF S /\ "completed" \in F
               THEN CatchBlock(s, S, F, "schema_loading",
                               "Failed to load database schema: ", SinkMessage,
                               e1, cl, {}, TRUE)
               ELSE IF S
               THEN Ret([s EXCEPT !.schema = Some(o.schema)], e1, cl, {}, FALSE)
               ELSE Ret(s, e1, cl, {}, FALSE)

loadSchema(s, o, F) ==
  LET S == HasSession(s.sessionId)
      e0 == IF S THEN <<Ev("schema_loading", "starting")>> ELSE << >>
      cl == <<Call("schema", << >>, FALSE, "")>>
  IN  IF S /\ "starting" \in F
      THEN Thrown(s, e0, << >>, {})
      ELSE IF o.threw
      THEN CatchBlock(s, S, F, "schema_loading", "Failed to load database schema: ",
                      o.msg, e0, cl, {"schema"}, FALSE)
      ELSE LET e1 == IF S THEN Append(e0, Ev("schema_loading", "completed")) ELSE e0
           IN  IF S /\ "completed" \in F
               THEN CatchBlock(s, S, F, "schema_loading",
                               "Failed to load database schema: ", SinkMessage,
                               e1, cl, {}, TRUE)
               ELSE Ret([s EXCEPT !.schema = Some(o.schema)], e1, cl, {}, FALSE)

\* convertNLToSQL without the `if (!state.schema)` check
convertNLToSQL_nocheck(s, o, F) ==
  LET S == HasSession(s.sessionId)
      e0 == IF S THEN <<Ev("nl_to_sql", "starting")>> ELSE << >>
      e1 == IF S THEN Append(e0, Ev("nl_to_sql", "processing")) ELSE e0
      e2 == IF S THEN Append(e1, Ev("nl_to_sql", "completed")) ELSE e1
      cl == <<Call("translator", << >>, FALSE, "")>>
      a == AgentConvertNLToSQL(o)
      prefix == "NL to SQL conversion failed: "
  IN  IF S /\ "starting" \in F
      THEN Thrown(s, e0, << >>, {})
      ELSE IF S /\ "processing" \in F
      THEN CatchBlock(s, S, F, "nl_to_sql", prefix, SinkMessage, e1, << >>, {}, TRUE)
      ELSE IF a.threw
      THEN CatchBlock(s, S, F, "nl_to_sql", prefix, a.msg, e1, cl, {"translator"}, FALSE)
      ELSE IF S /\ "completed" \in F
      THEN CatchBlock(s, S, F, "nl_to_sql", prefix, SinkMessage, e2, cl, {}, TRUE)
      ELSE Ret([s EXCEPT !.sqlQuery = Some(a.sqlQuery),
                         !.queryExplanation = Some(a.explanation),
                         !.sqlConfidence = Some(a.confidence)],
               e2, cl, {}, FALSE)

convertNLToSQL(s, o, F) ==
  LET S == HasSession(s.sessionId)
      e0 == IF S THEN <<Ev("nl_to_sql", "starting")>> ELSE << >>
      e1 == IF S THEN Append(e0, Ev("nl_to_sql", "processing")) ELSE e0
      e2 == IF S THEN Append(e1, Ev("nl_to_sql", "completed")) ELSE e1
      cl == <<Call("translator", << >>, FALSE, "")>>
      a == AgentConvertNLToSQL(o)
      prefix == "NL to SQL conversion failed: "
  IN  IF S /\ "starting" \in F
      THEN Thrown(s, e0, << >>, {})
      ELSE IF ~IsSet(s.schema)
      THEN Ret([s EXCEPT !.error = <<"Database schema not available">>],
               e0, << >>, {}, FALSE)
      ELSE IF S /\ "processing" \in F
      THEN CatchBlock(s, S, F, "nl_to_sql", prefix, SinkMessage, e1, << >>, {}, TRUE)
      ELSE IF a.threw
      THEN CatchBlock(s, S, F, "nl_to_sql", prefix, a.msg, e1, cl, {"translator"}, FALSE)
      ELSE IF S /\ "completed" \in F
      THEN CatchBlock(s, S, F, "nl_to_sql", prefix, SinkMessage, e2, cl, {}, TRUE)
      ELSE Ret([s EXCEPT !.sqlQuery = Some(a.sqlQuery),
                         !.queryExplanation = Some(a.explanation),
                         !.sqlConfidence = Some(a.confidence)],
               e2, cl, {}, FALSE)

\* validateSQL with `if (!state.sqlQuery)` alone as its check
validateSQL_noschema(s, o, F) ==
  LET S == HasSession(s.sessionId)
      e0 == IF S THEN <<Ev("sql_validation", "starting")>> ELSE << >>
      e1 == IF S THEN Append(e0, Ev("sql_validation", "completed")) ELSE e0
      prefix == "SQL validation failed: "
  IN  IF S /\ "starting" \in F
      THEN Thrown(s, e0, << >>, {})
      ELSE IF FalsyQuery(s.sqlQuery)
      THEN Ret([s EXCEPT !.error = <<"SQL query or schema missing for validation">>],
               e0, << >>, {}, FALSE)
      ELSE LET cl == <<Call("validator", Val(s.sqlQuery), FALSE, "")>>
           IN  IF o.threw
               THEN CatchBlock(s, S, F, "sql_validation", prefix, o.msg, e0, cl,
                               {"validator"}, FALSE)
               ELSE IF S /\ "completed" \in F
               THEN CatchBlock(s, S, F, "sql_validation", prefix, SinkMessage, e1, cl,
                               {}, TRUE)
               ELSE Ret([s EXCEPT !.validationResult =
                                    Some([isValid |-> o.isValid,
                                          shouldExecute |-> o.shouldExecute,
                                          riskLevel |-> o.riskLevel])],
                        e1, cl, {}, FALSE)

validateSQL(s, o, F) ==
  LET S == HasSession(s.sessionId)
      e0 == IF S THEN <<Ev("sql_validation", "starting")>> ELSE << >>
      e1 == IF S THEN Append(e0, Ev("sql_validation", "completed")) ELSE e0
      prefix == "SQL validation failed: "
  IN  IF S /\ "starting" \in F
      THEN Thrown(s, e0, << >>, {})
      ELSE IF FalsyQuery(s.sqlQuery) \/ ~IsSet(s.schema)
      THEN Ret([s EXCEPT !.error = <<"SQL query or schema missing for validation">>],
               e0, << >>, {}, FALSE)
      ELSE LET cl == <<Call("validator", Val(s.sqlQuery), FALSE, "")>>
           IN  IF o.threw
               THEN CatchBlock(s, S, F, "sql_validation", prefix, o.msg, e0, cl,
                               {"validator"}, FALSE)
               ELSE IF S /\ "completed" \in F
               THEN CatchBlock(s, S, F, "sql_validation", prefix, SinkMessage, e1, cl,
                               {}, TRUE)
               ELSE Ret([s EXCEPT !.validationResult =
                                    Some([isValid |-> o.isValid,
                                          shouldExecute |-> o.shouldExecute,
                                          riskLevel |-> o.riskLevel])],
                        e1, cl, {}, FALSE)

RECURSIVE ReduceBest_last(_, _, _)
\* reduce with `>=`: on equal confidence the later alternative wins
ReduceBest_last(alts, i, best) ==
  IF i > Len(alts) THEN best
  ELSE ReduceBest_last(alts, i + 1,
                       IF alts[i].confidence >= best.confidence THEN alts[i] ELSE best)

RECURSIVE ReduceBest(_, _, _)
\* alternatives.reduce((best, current) =>
\*   current.confidence > best.confidence ? current : best)
ReduceBest(alts, i, best) ==
  IF i > Len(alts) THEN best
  ELSE ReduceBest(alts, i + 1,
                  IF alts[i].confidence > best.confidence THEN alts[i] ELSE best)

\* experimentWithAlternatives whose catch block returns an error, as the
\* catch blocks of the other nodes do
experimentWithAlternatives_fatal(s, o, F) ==
  LET S == HasSession(s.sessionId)
      e0 == IF S THEN <<Ev("experimentation", "starting")>> ELSE << >>
      e1 == IF S THEN Append(e0, Ev("experimentation", "completed")) ELSE e0
      prefix == "Experimentation failed: "
  IN  IF S /\ "starting" \in F
      THEN Thrown(s, e0, << >>, {})
      ELSE IF FalsyQuery(s.sqlQuery) \/ ~IsSet(s.schema)
      THEN Ret(s, e0, << >>, {}, FALSE)
      ELSE LET cl == <<Call("generator", Val(s.sqlQuery), FALSE, "")>>
           IN  IF o.threw
               THEN CatchBlock(s, S, F, "experimentation", prefix, o.msg, e0, cl,
                               {"generator"}, FALSE)
               ELSE IF S /\ "completed" \in F
               THEN CatchBlock(s, S, F, "experimentation", prefix, SinkMessage, e1, cl,
                               {}, TRUE)
               ELSE IF IsSet(o.alternatives) /\ Len(Val(o.alternatives)) > 0
               THEN LET alts == Val(o.alternatives)
                        bestAlternative == ReduceBest(alts, 2, alts[1])
                    IN  IF bestAlternative.confidence > OrZero(s.sqlConfidence)
                        THEN Ret([s EXCEPT !.alternativeQueries = o.alternatives,
                                           !.sqlQuery = Some(bestAlternative.query),
                                           !.queryExplanation =
                                              Some(bestAlternative.explanation),
                                           !.sqlConfidence =
                                              Some(bestAlternative.confidence)],
                                 e1, cl, {}, FALSE)
                        ELSE Ret([s EXCEPT !.alternativeQueries = o.alternatives],
                                 e1, cl, {}, FALSE)
               ELSE Ret([s EXCEPT !.alternativeQueries = o.alternatives],
                        e1, cl, {}, FALSE)

experimentWithAlternatives(s, o, F) ==
  LET S == HasSession(s.sessionId)
      e0 == IF S THEN <<Ev("experimentation", "starting")>> ELSE << >>
      e1 == IF S THEN Append(e0, Ev("experimentation", "completed")) ELSE e0
      \* catch: emitError, then `return {}`
      Caught(ev, cl, ct, sinkT) ==
        LET ev2 == IF S THEN Append(ev, Ev("experimentation", "error")) ELSE ev
        IN  IF S /\ "error" \in F THEN Thrown(s, ev2, cl, ct)
            ELSE Ret(s, ev2, cl, ct, sinkT)
  IN  IF S /\ "starting" \in F
      THEN Thrown(s, e0, << >>, {})
      ELSE IF FalsyQuery(s.sqlQuery) \/ ~IsSet(s.schema)
      THEN Ret(s, e0, << >>, {}, FALSE)
      ELSE LET cl == <<Call("generator", Val(s.sqlQuery), FALSE, "")>>
           IN  IF o.threw
               THEN Caught(e0, cl, {"generator"}, FALSE)
               ELSE IF S /\ "completed" \in F
               THEN Caught(e1, cl, {}, TRUE)
               ELSE IF IsSet(o.alternatives) /\ Len(Val(o.alternatives)) > 0
               THEN LET alts == Val(o.alternatives)
                        bestAlternative == ReduceBest(alts, 2, alts[1])
                    IN  IF bestAlternative.confidence > OrZero(s.sqlConfidence)
                        THEN Ret([s EXCEPT !.alternativeQueries = o.alternatives,
                                           !.sqlQuery = Some(bestAlternative.query),
                                           !.queryExplanation =
                                              Some(bestAlternative.explanation),
                                           !.sqlConfidence =
                                              Some(bestAlternative.confidence)],
                                 e1, cl, {}, FALSE)
                        ELSE Ret([s EXCEPT !.alternativeQueries = o.alternatives],
                                 e1, cl, {}, FALSE)
               ELSE Ret([s EXCEPT !.alternativeQueries = o.alternatives],
                        e1, cl, {}, FALSE)

executeSQL(s, o, F) ==
  LET S == HasSession(s.sessionId)
      e0 == IF S THEN <<Ev("sql_execution", "starting")>> ELSE << >>
      prefix == "SQL execution failed: "
  IN  IF S /\ "starting" \in F
      THEN Thrown(s, e0, << >>, {})
      ELSE IF FalsyQuery(s.sqlQuery) \/ ~IsSet(s.validationResult)
      THEN Ret([s EXCEPT !.error = <<"SQL query or validation result missing">>],
               e0, << >>, {}, FALSE)
      ELSE LET input == [sqlQuery |-> Val(s.sqlQuery),
                         isValidated |-> Val(s.validationResult).isValid,
                         riskLevel |-> Val(s.validationResult).riskLevel]
               c0 == <<Call("executor", input.sqlQuery, input.isValidated,
                            input.riskLevel)>>
           IN  IF o.kind = "agent_throw"
               THEN CatchBlock(s, S, F, "sql_execution", prefix, o.msg, e0, c0,
                               {"executor"}, FALSE)
               ELSE LET r == AgentExecuteSQL(input, o)
                        cl == c0 \o [i \in 1..Len(r.sent) |->
                                       Call("database", r.sent[i], FALSE, "")]
                        e1 == IF S
                              THEN Append(e0, Ev("sql_execution",
                                                 IF r.out.success THEN "completed"
                                                 ELSE "error"))
                              ELSE e0
                    IN  IF S /\ "completed" \in F
                        THEN CatchBlock(s, S, F, "sql_execution", prefix, SinkMessage,
                                        e1, cl, {}, TRUE)
                        ELSE Ret([s EXCEPT !.executionResult = Some(r.out)],
                                 e1, cl, {}, FALSE)

interpretResults(s, o, F) ==
  LET S == HasSession(s.sessionId)
      e0 == IF S THEN <<Ev("result_interpretation", "starting")>> ELSE << >>
      e1 == IF S THEN Append(e0, Ev("result_interpretation", "completed")) ELSE e0
      prefix == "Result interpretation failed: "
  IN  IF S /\ "starting" \in F
      THEN Thrown(s, e0, << >>, {})
      ELSE IF ~IsSet(s.executionResult) \/ FalsyQuery(s.sqlQuery)
      THEN LET ev == IF S THEN Append(e0, Ev("result_interpretation", "error")) ELSE e0
           IN  IF S /\ "error" \in F
               THEN Thrown(s, ev, << >>, {})
               ELSE Ret([s EXCEPT !.error =
                           <<"Execution result or SQL query missing for interpretation">>],
                        ev, << >>, {}, FALSE)
      ELSE LET cl == <<Call("interpreter", Val(s.sqlQuery), FALSE, "")>>
           IN  IF o.threw
               THEN CatchBlock(s, S, F, "result_interpretation", prefix, o.msg, e0, cl,
                               {"interpreter"}, FALSE)
               ELSE IF S /\ "completed" \in F
               THEN CatchBlock(s, S, F, "result_interpretation", prefix, SinkMessage,
                               e1, cl, {}, TRUE)
               ELSE Ret([s EXCEPT !.finalResponse =
                                    Some([summary |-> o.summary, shows |-> o.shows])],
                        e1, cl, {}, FALSE)

\* handleError as a retry path that clears the error
handleError_clear(s) ==
  Ret([s EXCEPT !.error = Undefined, !.retryCount = Some(OrZero(s.retryCount) + 1)],
      << >>, << >>, {}, FALSE)

\* handleError giving up at the first failure
handleError_eager(s) ==
  LET retryCount == OrZero(s.retryCount) + 1
  IN  IF retryCount > 0
      THEN Ret([s EXCEPT !.error =
                           <<"Maximum retry attempts exceeded. Original error: ">>
                           \o s.error,
                         !.retryCount = Some(retryCount)],
               << >>, << >>, {}, FALSE)
      ELSE Ret([s EXCEPT !.retryCount = Some(retryCount)], << >>, << >>, {}, FALSE)

handleError(s) ==
  LET retryCount == OrZero(s.retryCount) + 1
  IN  IF retryCount > RetryLimit
      THEN Ret([s EXCEPT !.error =
                           <<"Maximum retry attempts exceeded. Original error: ">>
                           \o s.error,
                         !.retryCount = Some(retryCount)],
               << >>, << >>, {}, FALSE)
      ELSE Ret([s EXCEPT !.retryCount = Some(retryCount)], << >>, << >>, {}, FALSE)

(***************************************************************************)
(* Conditional edge functions                                              *)
(***************************************************************************)
\* shouldValidateSQL without the error check
shouldValidateSQL_always(s) == "validate"

shouldValidateSQL(s) ==
  IF HasError(s) THEN "error" ELSE "validate"

\* shouldExecuteOrExperiment with `&&` between the two validation flags
shouldExecuteOrExperiment_and(s) ==
  IF HasError(s) \/ ~IsSet(s.validationResult)
  THEN "error"
  ELSE IF \/ (~Val(s.validationResult).isValid /\ ~Val(s.validationResult).shouldExecute)
          \/ (TruthyNum(s.sqlConfidence) /\ Val(s.sqlConfidence) < ConfidenceThreshold)
  THEN "experiment"
  ELSE "execute"

\* shouldExecuteOrExperiment with `<=` in the confidence test
shouldExecuteOrExperiment_le(s) ==
  IF HasError(s) \/ ~IsSet(s.validationResult)
  THEN "error"
  ELSE IF \/ ~Val(s.validationResult).isValid
          \/ ~Val(s.validationResult).shouldExecute
          \/ (TruthyNum(s.sqlConfidence) /\ Val(s.sqlConfidence) <= ConfidenceThreshold)
  THEN "experiment"
  ELSE "execute"

shouldExecuteOrExperiment(s) ==
  IF HasError(s) \/ ~IsSet(s.validationResult)
  THEN "error"
  ELSE IF \/ ~Val(s.validationResult).isValid
          \/ ~Val(s.validationResult).shouldExecute
          \/ (TruthyNum(s.sqlConfidence) /\ Val(s.sqlConfidence) < ConfidenceThreshold)
  THEN "experiment"
  ELSE "execute"

\* shouldInterpretOrError without the `success` check
shouldInterpretOrError_nosuccess(s) ==
  IF HasError(s) \/ ~IsSet(s.executionResult)
  THEN "error"
  ELSE "interpret"

shouldInterpretOrError(s) ==
  IF HasError(s) \/ ~IsSet(s.executionResult)
  THEN "error"
  ELSE IF ~Val(s.executionResult).success
  THEN "error"
  ELSE "interpret"

(***************************************************************************)
(* buildWorkflow: the edges of the compiled graph                          *)
(***************************************************************************)
END == "__end__"

Nodes == {"load_schema", "nl_to_sql", "validate_sql", "experiment_alternatives",
          "execute_sql", "interpret_results", "handle_error"}

\* the graph with handle_error wired back to nl_to_sql until the retries run out
NextNode_retry(node, s) ==
  CASE node = "load_schema" -> "nl_to_sql"
    [] node = "nl_to_sql" ->
         IF shouldValidateSQL(s) = "validate" THEN "validate_sql" ELSE "handle_error"
    [] node = "validate_sql" ->
         (CASE shouldExecuteOrExperiment(s) = "execute" -> "execute_sql"
            [] shouldExecuteOrExperiment(s) = "experiment" -> "experiment_alternatives"
            [] OTHER -> "handle_error")
    [] node = "experiment_alternatives" -> "execute_sql"
    [] node = "execute_sql" ->
         IF shouldInterpretOrError(s) = "interpret" THEN "interpret_results"
         ELSE "handle_error"
    [] node = "interpret_results" -> END
    [] node = "handle_error" ->
         IF OrZero(s.retryCount) > RetryLimit THEN END ELSE "nl_to_sql"

\* the node the graph runs after `node` has left the state s
NextNode(node, s) ==
  CASE node = "load_schema" -> "nl_to_sql"
    [] node = "nl_to_sql" ->
         IF shouldValidateSQL(s) = "validate" THEN "validate_sql" ELSE "handle_error"
    [] node = "validate_sql" ->
         (CASE shouldExecuteOrExperiment(s) = "execute" -> "execute_sql"
            [] shouldExecuteOrExperiment(s) = "experiment" -> "experiment_alternatives"
            [] OTHER -> "handle_error")
    [] node = "experiment_alternatives" -> "execute_sql"
    [] node = "execute_sql" ->
         IF shouldInterpretOrError(s) = "interpret" THEN "interpret_results"
         ELSE "handle_error"
    [] node = "interpret_results" -> END
    [] node = "handle_error" -> END

(***************************************************************************)
(* Initial states                                                          *)
(***************************************************************************)
Questions == {"count rows in orders"}

SessionOf(r) ==
  CASE r = "A" -> "session-a"
    [] r = "B" -> "session-b"
    [] OTHER -> "session-c"

NoOracle ==
  [schema |-> Undefined, translator |-> Undefined, validator |-> Undefined,
   generator |-> Undefined, executor |-> Undefined, interpreter |-> Undefined]

InitRuns(act, faulty) ==
  /\ active = act
  /\ pc = [r \in Runs |-> "idle"]
  /\ \E q \in Questions :
       /\ args \in [Runs -> {[question |-> q, sessionId |-> sid] :
                              sid \in {""} \cup {SessionOf(r) : r \in Runs}}]
       /\ \A r \in Runs : args[r].sessionId \in {"", SessionOf(r)}
       /\ st = [r \in Runs |-> InitialState(q)]
  /\ sinkFaulty \in [Runs -> BOOLEAN]
  /\ \A r \in Runs : sinkFaulty[r] => (r \in faulty /\ TruthyStr(args[r].sessionId))
  /\ \A r \in Runs \ act : args[r].sessionId = ""
  /\ result = [r \in Runs |-> Undefined]
  /\ exc = [r \in Runs |-> ""]
  /\ trace = [r \in Runs |-> << >>]
  /\ emits = [r \in Runs |-> << >>]
  /\ calls = [r \in Runs |-> << >>]
  /\ threwAt = [r \in Runs |-> {}]
  /\ sinkThrew = [r \in Runs |-> FALSE]
  /\ resp = [r \in Runs |-> NoOracle]
  /\ response = [r \in Runs |-> Undefined]

\* no executeSQL call of the agent is being followed
NoRace ==
  [phase |-> "idle",
   input |-> [sqlQuery |-> QCount, isValidated |-> FALSE, riskLevel |-> "LOW"],
   sent |-> Undefined, db |-> "none", answer |-> Undefined, timer |-> "none",
   out |-> Undefined]

(***************************************************************************)
(* AskQLGateway (askql.gateway.ts): the sessions map from a socket id to   *)
(* the socket, and the emit methods the streamingService delegates to.     *)
(* A socket is identified by its id, which is the sessionId of its client. *)
(***************************************************************************)
Sockets == {"session-a", "session-b"}

\* no gateway is followed: the streamingService is the sink
NoGateway ==
  [on |-> FALSE, sessions |-> {}, gone |-> {}, delivered |-> [k \in Sockets |-> << >>]]

\* this.sessions.get(sessionId): the sockets registered under sid, none or one
SessionsGet(sessions, sid) == {c.socket : c \in {e \in sessions : e.id = sid}}

\* an emit method without the `if (client)` guard
GatewayEmit_noguard(sessions, sid) ==
  [to |-> SessionsGet(sessions, sid), raises |-> SessionsGet(sessions, sid) = {}]

\* emitWorkflowStep, emitWorkflowComplete, emitWorkflowError called for sid:
\* the sockets whose emit is called, and whether the method itself raises
GatewayEmit(sessions, sid) ==
  [to |-> SessionsGet(sessions, sid), raises |-> FALSE]

NoRoute ==
  /\ rstate = InitialState("")
  /\ decision = Undefined
  /\ applied = Undefined
  /\ race = NoRace
  /\ gateway = NoGateway

\* one processQuery invocation
Init == InitRuns({"A"}, {"A"}) /\ oracle = NoOracle /\ NoRoute

\* the responses the paired runs are given
PairLLM ==
  {o \in LLMOutcomes :
     o.threw \/ (o.sqlQuery # QCount /\ o.confidence \in {ConfidenceThreshold - 1, MaxConfidence})}

PairGenerator ==
  {g \in GeneratorOutcomes :
     g.threw \/ (IsSet(g.alternatives) /\ Len(Val(g.alternatives)) = 1
                   /\ Val(g.alternatives)[1].query # QDelete)}

PairExecutor == {e \in ExecutorOutcomes : e.kind \in {"agent_throw", "db_throw"} \/ e.rows = 5}

\* two invocations given the same question and collaborator responses: B with a
\* sink that never throws, then A with a session
InitPair ==
  /\ InitRuns({"A", "B"}, {"A"})
  /\ TruthyStr(args["A"].sessionId)
  /\ oracle = NoOracle
  /\ NoRoute

(***************************************************************************)
(* processQuery                                                            *)
(***************************************************************************)
\* the sets of streamingService calls that may throw during one step of run r
FaultSets(r) ==
  IF gateway.on
  THEN LET g == GatewayEmit(gateway.sessions, args[r].sessionId)
       IN  IF g.raises THEN {EmitKinds}
           ELSE IF g.to # {} /\ sinkFaulty[r] THEN {{}, EmitKinds}
           ELSE {{}}
  ELSE IF sinkFaulty[r] /\ TruthyStr(args[r].sessionId)
  THEN (IF {"A", "C"} \subseteq active THEN {{}, EmitKinds} ELSE SUBSET EmitKinds)
  ELSE {{}}

\* the streamingService calls run r made in this step
NewEvents(r) == SubSeq(emits'[r], Len(emits[r]) + 1, Len(emits'[r]))

\* the gateway passes the calls of this step of run r to the sockets
Deliver(r) ==
  gateway' =
    IF gateway.on
    THEN LET g == GatewayEmit(gateway.sessions, args[r].sessionId)
         IN  [gateway EXCEPT !.delivered =
                [k \in Sockets |-> IF k \in g.to THEN @[k] \o NewEvents(r) ELSE @[k]]]
    ELSE gateway

\* the responses explored are the narrowed ones when several invocations are
\* made, for an invocation whose sink may throw and behind the gateway
Narrowed(r) == active # {"A"} \/ sinkFaulty[r] \/ gateway.on

\* the responses explored for two invocations in flight at once
Concurrent(c, outcomes) ==
  CASE c = "validator" ->
         {v \in outcomes : v.threw \/ (v.isValid = v.shouldExecute /\ v.riskLevel # "MEDIUM")}
    [] c = "interpreter" -> {i \in outcomes : i.threw \/ i.shows # {}}
    [] c = "executor" -> {e \in outcomes : e.kind # "agent_throw"}
    [] c = "generator" ->
         {g \in outcomes :
            g.threw \/ (IsSet(g.alternatives) /\ Val(g.alternatives) # << >>
                          /\ Val(g.alternatives)[1].query = QAltLimit)}
    [] OTHER -> outcomes

\* the response of collaborator c: the one already given for this question, if any
Pick(c, outcomes) ==
  IF IsSet(oracle[c]) THEN {Val(oracle[c])}
  ELSE IF active = {"A", "C"} THEN Concurrent(c, outcomes)
  ELSE outcomes

\* the invocations that are over before r is invoked: B, then C, then A when
\* the invocations are consecutive; none when they are concurrent
Before(r) ==
  IF "B" \in active
  THEN (CASE r = "A" -> active \ {"A"}
          [] r = "C" -> {"B"}
          [] OTHER -> {})
  ELSE {}

\* lines 170-187: build the initial state, emit schema_loading, invoke the graph
ProcessQuery(r) ==
  /\ r \in active
  /\ pc[r] = "idle"
  /\ \A q \in Before(r) : IsSet(response[q])
  /\ LET S == HasSession(args[r].sessionId)
     IN  /\ emits' = [emits EXCEPT ![r] =
                        IF S THEN <<Ev("schema_loading", "starting")>> ELSE << >>]
         /\ \E F \in FaultSets(r) :
              IF S /\ "starting" \in F
              THEN /\ pc' = [pc EXCEPT ![r] = "raised"]
                   /\ exc' = [exc EXCEPT ![r] = SinkMessage]
                   /\ sinkThrew' = [sinkThrew EXCEPT ![r] = TRUE]
                   /\ st' = st
              ELSE /\ pc' = [pc EXCEPT ![r] = "load_schema"]
                   /\ st' = [st EXCEPT ![r] =
                               [InitialState(args[r].question)
                                  EXCEPT !.sessionId = args[r].sessionId]]
                   /\ UNCHANGED <<exc, sinkThrew>>
  /\ UNCHANGED <<args, result, trace, calls, threwAt, sinkFaulty, oracle, active,
                 rstate, decision, resp, response, applied, race>>
  /\ Deliver(r)

\* the graph state kept in one place for every invocation
RunNode_shared(r, node, res) ==
  /\ trace' = [trace EXCEPT ![r] = Append(@, node)]
  /\ emits' = [emits EXCEPT ![r] = @ \o res.ev]
  /\ calls' = [calls EXCEPT ![r] = @ \o res.cl]
  /\ threwAt' = [threwAt EXCEPT ![r] = @ \cup res.ct]
  /\ sinkThrew' = [sinkThrew EXCEPT ![r] = @ \/ res.sinkT]
  /\ IF res.threw
     THEN /\ pc' = [pc EXCEPT ![r] = "threw"]
          /\ exc' = [exc EXCEPT ![r] = res.msg]
          /\ st' = st
     ELSE /\ pc' = [pc EXCEPT ![r] = NextNode(node, res.s)]
          /\ st' = [q \in Runs |-> IF q \in active THEN res.s ELSE st[q]]
          /\ exc' = exc
  /\ UNCHANGED <<args, result, sinkFaulty, active, rstate, decision, response, applied, race>>
  /\ Deliver(r)

\* workflow.invoke runs `node` for run r with the node result res
RunNode(r, node, res) ==
  /\ trace' = [trace EXCEPT ![r] = Append(@, node)]
  /\ emits' = [emits EXCEPT ![r] = @ \o res.ev]
  /\ calls' = [calls EXCEPT ![r] = @ \o res.cl]
  /\ threwAt' = [threwAt EXCEPT ![r] = @ \cup res.ct]
  /\ sinkThrew' = [sinkThrew EXCEPT ![r] = @ \/ res.sinkT]
  /\ IF res.threw
     THEN /\ pc' = [pc EXCEPT ![r] = "threw"]
          /\ exc' = [exc EXCEPT ![r] = res.msg]
          /\ st' = st
     ELSE /\ pc' = [pc EXCEPT ![r] = NextNode(node, res.s)]
          /\ st' = [st EXCEPT ![r] = res.s]
          /\ exc' = exc
  /\ UNCHANGED <<args, result, sinkFaulty, active, rstate, decision, response, applied, race>>
  /\ Deliver(r)

\* the response o of collaborator c as run r received it
Log(r, c, o, res) ==
  resp' = IF res.cl # << >>
          THEN [resp EXCEPT ![r][c] = Some(o)]
          ELSE resp

\* when a second invocation follows, the response o of collaborator c is kept
\* for it once the collaborator was called
Record(c, o, res) ==
  oracle' = IF res.cl # << >> /\ "B" \in active
            THEN [oracle EXCEPT ![c] = Some(o)]
            ELSE oracle

NodeLoadSchema(r) ==
  /\ pc[r] = "load_schema"
  /\ \E o \in Pick("schema", SchemaOutcomes), F \in FaultSets(r) :
       \E res \in {loadSchema(st[r], o, F)} :
         RunNode(r, "load_schema", res) /\ Record("schema", o, res) /\ Log(r, "schema", o, res)

NodeConvertNLToSQL(r) ==
  /\ pc[r] = "nl_to_sql"
  /\ \E o \in Pick("translator", IF Narrowed(r) THEN PairLLM ELSE LLMOutcomes), F \in FaultSets(r) :
       \E res \in {convertNLToSQL(st[r], o, F)} :
         RunNode(r, "nl_to_sql", res) /\ Record("translator", o, res) /\ Log(r, "translator", o, res)

NodeValidateSQL(r) ==
  /\ pc[r] = "validate_sql"
  /\ \E o \in Pick("validator", ValidatorOutcomes), F \in FaultSets(r) :
       \E res \in {validateSQL(st[r], o, F)} :
         RunNode(r, "validate_sql", res) /\ Record("validator", o, res) /\ Log(r, "validator", o, res)

NodeExperimentWithAlternatives(r) ==
  /\ pc[r] = "experiment_alternatives"
  /\ \E o \in Pick("generator", IF Narrowed(r) THEN PairGenerator ELSE GeneratorOutcomes), F \in FaultSets(r) :
       \E res \in {experimentWithAlternatives(st[r], o, F)} :
         RunNode(r, "experiment_alternatives", res) /\ Record("generator", o, res) /\ Log(r, "generator", o, res)

NodeExecuteSQL(r) ==
  /\ pc[r] = "execute_sql"
  /\ \E o \in Pick("executor", IF Narrowed(r) THEN PairExecutor ELSE ExecutorOutcomes), F \in FaultSets(r) :
       \E res \in {executeSQL(st[r], o, F)} :
         RunNode(r, "execute_sql", res) /\ Record("executor", o, res) /\ Log(r, "executor", o, res)

NodeInterpretResults(r) ==
  /\ pc[r] = "interpret_results"
  /\ \E o \in Pick("interpreter", InterpreterOutcomes), F \in FaultSets(r) :
       \E res \in {interpretResults(st[r], o, F)} :
         RunNode(r, "interpret_results", res) /\ Record("interpreter", o, res) /\ Log(r, "interpreter", o, res)

NodeHandleError(r) ==
  /\ pc[r] = "handle_error"
  /\ RunNode(r, "handle_error", handleError(st[r]))
  /\ UNCHANGED <<oracle, resp>>

\* lines 206-217: the catch block of processQuery, entered with error.message = m
\* after the streamingService calls ev were made
ProcessQueryCatch(r, m, ev, F) ==
  LET S == HasSession(args[r].sessionId)
      ev2 == IF S THEN Append(ev, Ev("workflow", "error")) ELSE ev
  IN  /\ emits' = [emits EXCEPT ![r] = @ \o ev2]
      /\ IF S /\ "error" \in F
         THEN /\ pc' = [pc EXCEPT ![r] = "raised"]
              /\ exc' = [exc EXCEPT ![r] = SinkMessage]
              /\ sinkThrew' = [sinkThrew EXCEPT ![r] = TRUE]
              /\ result' = result
         ELSE /\ pc' = [pc EXCEPT ![r] = "returned"]
              /\ result' = [result EXCEPT ![r] =
                   Some([InitialState(args[r].question)
                           EXCEPT !.error = <<"Workflow execution failed: ", m>>])]
              /\ exc' = exc
              /\ sinkThrew' = [sinkThrew EXCEPT ![r] = @ \/ ev # << >>]

\* lines 189-205: workflow.invoke resolved with the final state
ProcessQueryResolved(r) ==
  /\ pc[r] = END
  /\ LET S == HasSession(args[r].sessionId)
         e == Ev("workflow", IF HasError(st[r]) THEN "error" ELSE "complete")
     IN  \E F \in FaultSets(r) :
           IF S /\ "completed" \in F
           THEN ProcessQueryCatch(r, SinkMessage, <<e>>, F)
           ELSE /\ emits' = [emits EXCEPT ![r] = IF S THEN Append(@, e) ELSE @]
                /\ pc' = [pc EXCEPT ![r] = "returned"]
                /\ result' = [result EXCEPT ![r] = Some(st[r])]
                /\ UNCHANGED <<exc, sinkThrew>>
  /\ UNCHANGED <<st, args, trace, calls, threwAt, sinkFaulty, oracle, active,
                 rstate, decision, resp, response, applied, race>>
  /\ Deliver(r)

\* workflow.invoke rejected: a node threw
ProcessQueryRejected(r) ==
  /\ pc[r] = "threw"
  /\ \E F \in FaultSets(r) : ProcessQueryCatch(r, exc[r], << >>, F)
  /\ UNCHANGED <<st, args, trace, calls, threwAt, sinkFaulty, oracle, active,
                 rstate, decision, resp, response, applied, race>>
  /\ Deliver(r)

(***************************************************************************)
(* AskQLService (askql.service.ts): the caller of processQuery.  A request *)
(* with a sessionId is served by processNaturalLanguageQueryStream, one    *)
(* without by processNaturalLanguageQuery.                                 *)
(***************************************************************************)
ChartOrder == <<"bar", "line", "pie", "table">>

\* the visualizations pushed for a final response, in the order of the code
Visualizations(fr) ==
  LET Shown(k) == k \in fr.shows
  IN  SelectSeq(ChartOrder, Shown)

ErrorResponse(answer, error) ==
  [raised |-> FALSE, success |-> FALSE, answer |-> answer, visualizations |-> << >>,
   error |-> error, rowCount |-> 0]

\* the response of the catch block: an exception with message m
Unexpected(m) ==
  ErrorResponse(<<"I encountered an unexpected error while processing your question: ", m>>,
                <<m>>)

\* the service call itself rejected with message m
Rejected(m) ==
  [raised |-> TRUE, success |-> FALSE, answer |-> << >>, visualizations |-> << >>,
   error |-> <<m>>, rowCount |-> 0]

\* the response without the `if (!finalResponse)` branch
ServiceResponse_nocheck(s) ==
  IF HasError(s)
  THEN ErrorResponse(<<"I encountered an error while processing your question: ">>
                       \o s.error,
                     s.error)
  ELSE [raised |-> FALSE, success |-> TRUE,
        answer |-> IF IsSet(s.finalResponse) THEN <<Val(s.finalResponse).summary>>
                   ELSE << >>,
        visualizations |-> IF IsSet(s.finalResponse)
                           THEN Visualizations(Val(s.finalResponse)) ELSE << >>,
        error |-> Undefined,
        rowCount |-> IF IsSet(s.executionResult)
                     THEN OrZero(Val(s.executionResult).data) ELSE 0]

\* the AskQLResponse built from the state processQuery returned
ServiceResponse(s) ==
  IF HasError(s)
  THEN ErrorResponse(<<"I encountered an error while processing your question: ">>
                       \o s.error,
                     s.error)
  ELSE IF ~IsSet(s.finalResponse)
  THEN ErrorResponse(<<"I was unable to generate a response to your question.">>,
                     <<"No final response generated">>)
  ELSE [raised |-> FALSE, success |-> TRUE,
        answer |-> <<Val(s.finalResponse).summary>>,
        visualizations |-> Visualizations(Val(s.finalResponse)),
        error |-> Undefined,
        rowCount |-> IF IsSet(s.executionResult)
                     THEN OrZero(Val(s.executionResult).data) ELSE 0]

\* whether one streamingService call of run r throws
SinkThrows(r) ==
  IF gateway.on
  THEN LET g == GatewayEmit(gateway.sessions, args[r].sessionId)
       IN  IF g.raises THEN {TRUE}
           ELSE IF g.to # {} /\ sinkFaulty[r] THEN BOOLEAN
           ELSE {FALSE}
  ELSE IF sinkFaulty[r] /\ TruthyStr(args[r].sessionId) THEN BOOLEAN ELSE {FALSE}

\* the service answers once processQuery has returned or raised; with a
\* session it reports the outcome to the sink: t1 says that the call in the
\* try block throws, t2 that the call in the catch block does
ServiceRespond(r) ==
  /\ r \in active
  /\ pc[r] \in {"returned", "raised"}
  /\ response[r] = Undefined
  /\ LET S == HasSession(args[r].sessionId)
         built == IF pc[r] = "returned" THEN ServiceResponse(Val(result[r]))
                  ELSE Unexpected(exc[r])
         e1 == Ev("workflow", IF built.success THEN "complete" ELSE "error")
         e2 == Ev("workflow", "error")
     IN  \E t1 \in SinkThrows(r), t2 \in SinkThrows(r) :
           IF ~S
           THEN /\ response' = [response EXCEPT ![r] = Some(built)]
                /\ UNCHANGED <<emits, sinkThrew>>
           ELSE IF pc[r] = "raised"
           THEN /\ emits' = [emits EXCEPT ![r] = Append(@, e2)]
                /\ response' = [response EXCEPT ![r] =
                     Some(IF t2 THEN Rejected(SinkMessage) ELSE built)]
                /\ sinkThrew' = [sinkThrew EXCEPT ![r] = @ \/ t2]
           ELSE IF t1
           THEN /\ emits' = [emits EXCEPT ![r] = @ \o <<e1, e2>>]
                /\ response' = [response EXCEPT ![r] =
                     Some(IF t2 THEN Rejected(SinkMessage)
                          ELSE Unexpected(SinkMessage))]
                /\ sinkThrew' = [sinkThrew EXCEPT ![r] = TRUE]
           ELSE /\ emits' = [emits EXCEPT ![r] = Append(@, e1)]
                /\ response' = [response EXCEPT ![r] = Some(built)]
                /\ UNCHANGED sinkThrew
  /\ UNCHANGED <<pc, st, args, result, exc, trace, calls, threwAt, sinkFaulty, oracle,
                 active, rstate, decision, resp, applied, race>>
  /\ Deliver(r)

Step(r) ==
  \/ ProcessQuery(r)
  \/ NodeLoadSchema(r)
  \/ NodeConvertNLToSQL(r)
  \/ NodeValidateSQL(r)
  \/ NodeExperimentWithAlternatives(r)
  \/ NodeExecuteSQL(r)
  \/ NodeInterpretResults(r)
  \/ NodeHandleError(r)
  \/ ProcessQueryResolved(r)
  \/ ProcessQueryRejected(r)
  \/ ServiceRespond(r)

Next == \E r \in Runs : Step(r)

Spec == Init /\ [][Next]_vars

SpecPair == InitPair /\ [][Next]_vars

\* every awaited call settles: a step that can be taken is eventually taken
\* one invocation, its sink possibly faulty, given the narrowed responses
InitLive == InitRuns({"C"}, {"C"}) /\ oracle = NoOracle /\ NoRoute

SpecLive == InitLive /\ [][Next]_vars /\ WF_vars(Next)

\* two invocations in flight at once, each with its own session and its own
\* collaborator responses; their steps interleave in any order; the sink of C
\* may throw
InitConc ==
  /\ InitRuns({"A", "C"}, {"C"})
  /\ \A r \in active : TruthyStr(args[r].sessionId)
  /\ sinkFaulty["C"]
  /\ oracle = NoOracle
  /\ NoRoute

SpecConc == InitConc /\ [][Next]_vars

\* three consecutive invocations, B then C then A, given the same question and
\* the same collaborator responses; the sink of A may throw
InitChain ==
  /\ InitRuns(Runs, {"A"})
  /\ oracle = NoOracle
  /\ NoRoute

SpecChain == InitChain /\ [][Next]_vars

(***************************************************************************)
(* One streamed invocation behind the gateway: its client is connected     *)
(* when it starts, clients connect and disconnect between its stages.      *)
(***************************************************************************)
\* the sessions entry of the client whose socket id is c
Client(c) == [id |-> c, socket |-> c]

InitGateway ==
  /\ InitRuns({"A"}, {"A"})
  /\ TruthyStr(args["A"].sessionId)
  /\ oracle = NoOracle
  /\ rstate = InitialState("")
  /\ decision = Undefined
  /\ applied = Undefined
  /\ race = NoRace
  /\ gateway = [NoGateway EXCEPT !.on = TRUE,
                                 !.sessions = {Client(args["A"].sessionId)}]

\* lines 48-51: this.sessions.set(client.id, client); a socket id is not reused
HandleConnection(c) ==
  /\ gateway.on
  /\ c \notin gateway.gone
  /\ SessionsGet(gateway.sessions, c) = {}
  /\ gateway' = [gateway EXCEPT !.sessions = {e \in @ : e.id # c} \cup {Client(c)}]
  /\ UNCHANGED <<pc, st, args, result, exc, trace, emits, calls, threwAt, sinkFaulty,
                 sinkThrew, oracle, active, rstate, decision, resp, response, applied, race>>

\* lines 53-56: this.sessions.delete(client.id)
HandleDisconnect(c) ==
  /\ gateway.on
  /\ SessionsGet(gateway.sessions, c) # {}
  /\ gateway' = [gateway EXCEPT !.sessions = {e \in @ : e.id # c},
                                !.gone = @ \cup {c}]
  /\ UNCHANGED <<pc, st, args, result, exc, trace, emits, calls, threwAt, sinkFaulty,
                 sinkThrew, oracle, active, rstate, decision, resp, response, applied, race>>

NextGateway ==
  \/ \E r \in Runs : Step(r)
  \/ \E c \in Sockets : HandleConnection(c)
  \/ \E c \in Sockets : HandleDisconnect(c)

SpecGateway == InitGateway /\ [][NextGateway]_vars

(***************************************************************************)
(* The conditional edge functions on their own: applied to any state       *)
(* snapshot, whatever stage produced it                                    *)
(***************************************************************************)
RouteStates ==
  {[InitialState("count rows in orders") EXCEPT
      !.error = e, !.validationResult = v, !.sqlConfidence = c, !.executionResult = x] :
     e \in {Undefined, <<"SQL validation failed: ", "validator crashed">>},
     v \in {Undefined} \cup
           {Some([isValid |-> a, shouldExecute |-> b, riskLevel |-> k]) :
              a \in BOOLEAN, b \in BOOLEAN, k \in RiskLevels},
     c \in {Undefined} \cup {Some(n) : n \in 0..MaxConfidence},
     x \in {Undefined,
            Some(Refusal("Only SELECT queries are allowed")),
            Some([success |-> TRUE, error |-> Undefined, rowCount |-> 5,
                  data |-> Some(5)])}}

InitRoute ==
  /\ InitRuns({}, {})
  /\ oracle = NoOracle
  /\ rstate \in RouteStates
  /\ decision = Undefined
  /\ applied = Undefined
  /\ race = NoRace
  /\ gateway = NoGateway

Decided(fn, edge) == Some([fn |-> fn, edge |-> edge])

RouteAfterTranslate ==
  /\ decision = Undefined
  /\ decision' = Decided("shouldValidateSQL", shouldValidateSQL(rstate))
  /\ UNCHANGED <<runVars, rstate, applied>>

RouteAfterValidate ==
  /\ decision = Undefined
  /\ decision' = Decided("shouldExecuteOrExperiment", shouldExecuteOrExperiment(rstate))
  /\ UNCHANGED <<runVars, rstate, applied>>

RouteAfterExecute ==
  /\ decision = Undefined
  /\ decision' = Decided("shouldInterpretOrError", shouldInterpretOrError(rstate))
  /\ UNCHANGED <<runVars, rstate, applied>>

NextRoute == RouteAfterTranslate \/ RouteAfterValidate \/ RouteAfterExecute

SpecRoute == InitRoute /\ [][NextRoute]_vars

(***************************************************************************)
(* The graph nodes on their own: one node applied to any state snapshot,   *)
(* with a sink that does not throw                                         *)
(***************************************************************************)
StageStates ==
  {[InitialState("count rows in orders") EXCEPT
      !.schema = sc, !.sqlQuery = q,
      !.queryExplanation = IF IsSet(q) THEN Some("translated") ELSE Undefined,
      !.sqlConfidence = c, !.validationResult = v, !.executionResult = x,
      !.error = e] :
     sc \in {Undefined, Some("orders")},
     q \in {Undefined, Some(<< >>), Some(QCount), Some(QList), Some(QDelete)},
     c \in {Undefined} \cup
           {Some(n) : n \in {0, ConfidenceThreshold - 1, ConfidenceThreshold,
                             MaxConfidence - 15, MaxConfidence}},
     v \in {Undefined,
            Some([isValid |-> TRUE, shouldExecute |-> TRUE, riskLevel |-> "LOW"]),
            Some([isValid |-> FALSE, shouldExecute |-> FALSE, riskLevel |-> "LOW"]),
            Some([isValid |-> TRUE, shouldExecute |-> TRUE, riskLevel |-> "HIGH"])},
     x \in {Undefined,
            Some(Refusal("Only SELECT queries are allowed")),
            Some([success |-> TRUE, error |-> Undefined, rowCount |-> 5,
                  data |-> Some(5)])},
     e \in {Undefined, <<"SQL validation failed: ", "validator crashed">>}}

InitStage ==
  /\ InitRuns({}, {})
  /\ oracle = NoOracle
  /\ rstate \in StageStates
  /\ decision = Undefined
  /\ applied = Undefined
  /\ race = NoRace
  /\ gateway = NoGateway

\* node ran on rstate with the collaborator outcome o and returned res; next is
\* the node the graph runs after it
Applied(node, o, res) ==
  Some([node |-> node, o |-> o, res |-> res, next |-> NextNode(node, res.s)])

ApplyLoadSchema ==
  /\ applied = Undefined
  /\ \E o \in SchemaOutcomes :
       applied' = Applied("load_schema", o, loadSchema(rstate, o, {}))
  /\ UNCHANGED <<runVars, rstate, decision>>

ApplyConvertNLToSQL ==
  /\ applied = Undefined
  /\ \E o \in LLMOutcomes :
       applied' = Applied("nl_to_sql", o, convertNLToSQL(rstate, o, {}))
  /\ UNCHANGED <<runVars, rstate, decision>>

ApplyValidateSQL ==
  /\ applied = Undefined
  /\ \E o \in ValidatorOutcomes :
       applied' = Applied("validate_sql", o, validateSQL(rstate, o, {}))
  /\ UNCHANGED <<runVars, rstate, decision>>

ApplyExperimentWithAlternatives ==
  /\ applied = Undefined
  /\ \E o \in GeneratorOutcomes :
       applied' = Applied("experiment_alternatives", o,
                          experimentWithAlternatives(rstate, o, {}))
  /\ UNCHANGED <<runVars, rstate, decision>>

ApplyExecuteSQL ==
  /\ applied = Undefined
  /\ \E o \in ExecutorOutcomes :
       applied' = Applied("execute_sql", o, executeSQL(rstate, o, {}))
  /\ UNCHANGED <<runVars, rstate, decision>>

ApplyInterpretResults ==
  /\ applied = Undefined
  /\ \E o \in InterpreterOutcomes :
       applied' = Applied("interpret_results", o, interpretResults(rstate, o, {}))
  /\ UNCHANGED <<runVars, rstate, decision>>

ApplyHandleError ==
  /\ applied = Undefined
  /\ applied' = Applied("handle_error", Undefined, handleError(rstate))
  /\ UNCHANGED <<runVars, rstate, decision>>

NextStage ==
  \/ ApplyLoadSchema
  \/ ApplyConvertNLToSQL
  \/ ApplyValidateSQL
  \/ ApplyExperimentWithAlternatives
  \/ ApplyExecuteSQL
  \/ ApplyInterpretResults
  \/ ApplyHandleError

SpecStage == InitStage /\ [][NextStage]_vars

(***************************************************************************)
(* SQLExecutionAgent.executeSQL step by step: the query is handed to the   *)
(* database and a timer of TIMEOUT_MS is armed; Promise.race settles with  *)
(* whichever of the two settles first, and the other one settles later     *)
(* without effect.                                                         *)
(***************************************************************************)
RaceInputs ==
  {[sqlQuery |-> q, isValidated |-> v, riskLevel |-> k] :
     q \in {QCount, QList, QDelete, QAltList, QAltLimit}, v \in BOOLEAN, k \in RiskLevels}

InitRace ==
  /\ InitRuns({}, {})
  /\ oracle = NoOracle
  /\ rstate = InitialState("")
  /\ decision = Undefined
  /\ applied = Undefined
  /\ race \in {[NoRace EXCEPT !.input = i] : i \in RaceInputs}
  /\ gateway = NoGateway

\* the awaited race keeping the outcome of whichever promise settled last
Settle_last(p, v) ==
  [p EXCEPT !.phase = "returned", !.out = Some(v)]

\* a promise of the race settles with v: the awaited race takes the first
\* settlement, and executeSQL returns the output made from it
Settle(p, v) ==
  IF p.phase = "racing"
  THEN [p EXCEPT !.phase = "returned", !.out = Some(v)]
  ELSE p

\* lines 31-86: the refusals return at once; otherwise the query is passed to
\* the database and the timer is armed
ExecuteCall ==
  /\ race.phase = "idle"
  /\ \E a \in {AgentExecuteSQL(race.input, [kind |-> "timeout", rows |-> 0, msg |-> ""])} :
       race' = IF a.sent = << >>
               THEN [race EXCEPT !.phase = "returned", !.out = Some(a.out)]
               ELSE [race EXCEPT !.phase = "racing", !.sent = Some(a.sent[1]),
                                 !.db = "pending", !.timer = "armed"]
  /\ UNCHANGED <<rstate, decision, applied, gateway>>
  /\ UNCHANGED <<pc, st, args, result, exc, trace, emits, calls, threwAt, sinkFaulty,
                 sinkThrew, oracle, active, resp, response>>

\* executeReadOnlyQuery resolves with the rows of the query
DatabaseResolves ==
  /\ race.db = "pending"
  /\ \E n \in NaturalRowCounts :
       \E rows \in {DatabaseRows(Val(race.sent), n)} :
         race' = [Settle(race, [success |-> TRUE, error |-> Undefined, rowCount |-> rows,
                                data |-> Some(rows)])
                    EXCEPT !.db = "resolved", !.answer = Some(rows)]
  /\ UNCHANGED <<rstate, decision, applied, gateway>>
  /\ UNCHANGED <<pc, st, args, result, exc, trace, emits, calls, threwAt, sinkFaulty,
                 sinkThrew, oracle, active, resp, response>>

\* executeReadOnlyQuery rejects
DatabaseRejects ==
  /\ race.db = "pending"
  /\ race' = [Settle(race, Refusal("relation does not exist")) EXCEPT !.db = "rejected"]
  /\ UNCHANGED <<rstate, decision, applied, gateway>>
  /\ UNCHANGED <<pc, st, args, result, exc, trace, emits, calls, threwAt, sinkFaulty,
                 sinkThrew, oracle, active, resp, response>>

\* lines 116-122: the timer fires and the timeout promise rejects
TimerFires ==
  /\ race.timer = "armed"
  /\ race' = [Settle(race, Refusal(TimeoutMessage)) EXCEPT !.timer = "fired"]
  /\ UNCHANGED <<rstate, decision, applied, gateway>>
  /\ UNCHANGED <<pc, st, args, result, exc, trace, emits, calls, threwAt, sinkFaulty,
                 sinkThrew, oracle, active, resp, response>>

NextRace ==
  \/ ExecuteCall
  \/ DatabaseResolves
  \/ DatabaseRejects
  \/ TimerFires

\* a timer set with setTimeout fires; the database may never answer
SpecRace == InitRace /\ [][NextRace]_vars /\ WF_vars(TimerFires)

(***************************************************************************)
(* Properties                                                              *)
(***************************************************************************)
Range(f) == {f[i] : i \in DOMAIN f}

Finished(r) == pc[r] \in {"returned", "raised"}

Returned(r) == pc[r] = "returned"

\* the step name a node reports to the streamingService
StepOf(node) ==
  CASE node = "load_schema" -> "schema_loading"
    [] node = "nl_to_sql" -> "nl_to_sql"
    [] node = "validate_sql" -> "sql_validation"
    [] node = "experiment_alternatives" -> "experimentation"
    [] node = "execute_sql" -> "sql_execution"
    [] node = "interpret_results" -> "result_interpretation"
    [] OTHER -> "handle_error"

\* the run did not end on an execution that reported success = false
NoFailedExecution(r) ==
  ~(IsSet(st[r].executionResult) /\ ~Val(st[r].executionResult).success)

C2_ExactlyOneTerminalField ==
  \A r \in Runs :
    Returned(r) =>
      (IsSet(Val(result[r]).finalResponse) /\ ~HasError(Val(result[r])))
      \/ (~IsSet(Val(result[r]).finalResponse) /\ HasError(Val(result[r])))

\* C3: every run (no sink call throwing) ends either with Interpret as its last
\* stage, having produced finalResponse, or with HandleError as its last stage,
\* and the state returned is the state that stage left.
C3_TwoTerminals ==
  \A r \in Runs :
    (Returned(r) /\ ~sinkThrew[r]) =>
      /\ trace[r] # << >>
      /\ Val(result[r]) = st[r]
      /\ \/ Last(trace[r]) = "interpret_results" /\ IsSet(st[r].finalResponse)
         \/ Last(trace[r]) = "handle_error"

\* the fields of a terminal state that C4 compares
Outcome(s) ==
  <<s.error, s.finalResponse, s.sqlQuery, s.executionResult, s.retryCount>>

\* C4: a run with a session whose sink calls may throw does not raise, and runs
\* the same stages and returns the same error, finalResponse, sqlQuery,
\* executionResult and retryCount as the run given the same responses whose
\* sink calls do not throw.
C4_SinkFailureHarmless ==
  (Finished("A") /\ Finished("B") /\ TruthyStr(args["B"].sessionId)) =>
    /\ Returned("A")
    /\ trace["A"] = trace["B"]
    /\ Outcome(Val(result["A"])) = Outcome(Val(result["B"]))

\* C5: a run with a session and a sink that does not throw executes the same
\* stages as the run without a session given the same question and responses,
\* and the two returned states agree on every field other than sessionId.
C5_ObservationKeepsControlFlow ==
  (Returned("A") /\ Returned("B") /\ args["B"].sessionId = "" /\ ~sinkThrew["A"]) =>
    /\ trace["A"] = trace["B"]
    /\ [Val(result["A"]) EXCEPT !.sessionId = ""]
         = [Val(result["B"]) EXCEPT !.sessionId = ""]

C5_Witness ==
  /\ Returned("A") /\ Returned("B")
  /\ args["B"].sessionId = "" /\ ~sinkThrew["A"]
  /\ Val(result["A"]).sessionId = SessionOf("A")
  /\ "experiment_alternatives" \in Range(trace["A"])
  /\ IsSet(Val(result["B"]).finalResponse)
  /\ Len(emits["A"]) > Len(trace["A"])

\* C6: a run invoked without a sessionId makes no streamingService call, at any
\* point and on any path.
C6_NoSessionNoEmit ==
  \A r \in Runs : ~TruthyStr(args[r].sessionId) => emits[r] = << >>

C6_Witness ==
  \E r \in Runs :
    /\ ~TruthyStr(args[r].sessionId)
    /\ Returned(r)
    /\ "handle_error" \in Range(trace[r])
    /\ "schema" \in threwAt[r]

\* C7: in a finished run with a session (no sink call throwing), every executed
\* stage has a 'starting' event followed by a 'completed' or 'error' event of
\* the same stage.
C7_StartThenFinishEvent ==
  \A r \in Runs :
    (Returned(r) /\ TruthyStr(args[r].sessionId) /\ ~sinkThrew[r]) =>
      \A n \in Range(trace[r]) :
        \E i, j \in 1..Len(emits[r]) :
          /\ i < j
          /\ emits[r][i] = Ev(StepOf(n), "starting")
          /\ emits[r][j].step = StepOf(n)
          /\ emits[r][j].status \in {"completed", "error"}

\* a snapshot with no error whose validation is valid and execute-recommended
Approved(s) ==
  /\ ~HasError(s)
  /\ IsSet(s.validationResult)
  /\ Val(s.validationResult).isValid
  /\ Val(s.validationResult).shouldExecute

\* C8: for a snapshot with no error, valid and execute-recommended,
\* shouldExecuteOrExperiment answers 'experiment' for every present confidence
\* 0..69 and 'execute' for 70..100 and for an absent confidence.
C8_ConfidenceThreshold ==
  (IsSet(decision) /\ Val(decision).fn = "shouldExecuteOrExperiment" /\ Approved(rstate)) =>
    Val(decision).edge =
      IF IsSet(rstate.sqlConfidence) /\ Val(rstate.sqlConfidence) < ConfidenceThreshold
      THEN "experiment"
      ELSE "execute"

\* C9: shouldExecuteOrExperiment answers 'error' whenever error is set or
\* validation is absent; otherwise, when valid or shouldExecute is false, it
\* answers 'experiment', whatever the confidence.
C9_InvalidNeverExecutes ==
  (IsSet(decision) /\ Val(decision).fn = "shouldExecuteOrExperiment") =>
    IF HasError(rstate) \/ ~IsSet(rstate.validationResult)
    THEN Val(decision).edge = "error"
    ELSE (~Val(rstate.validationResult).isValid
          \/ ~Val(rstate.validationResult).shouldExecute)
         => Val(decision).edge = "experiment"

C9_Witness ==
  /\ decision = Decided("shouldExecuteOrExperiment", "experiment")
  /\ ~HasError(rstate)
  /\ IsSet(rstate.validationResult)
  /\ ~Val(rstate.validationResult).isValid
  /\ Val(rstate.validationResult).shouldExecute
  /\ rstate.sqlConfidence = Some(MaxConfidence)

\* `s` lets Interpret run: no error, an execution result, and it succeeded
Interpretable(s) ==
  /\ ~HasError(s)
  /\ IsSet(s.executionResult)
  /\ Val(s.executionResult).success

\* C10: Interpret is entered, and the interpreter called, only with no error and
\* a successful execution result; after Execute every other state goes to
\* HandleError.
C10_InterpretOnlyAfterSuccess ==
  \A r \in Runs :
    /\ pc[r] = "interpret_results" => Interpretable(st[r])
    /\ (\E i \in 1..Len(calls[r]) : calls[r][i].c = "interpreter") =>
         /\ "interpret_results" \in Range(trace[r])
         /\ IsSet(st[r].executionResult) /\ Val(st[r].executionResult).success
    /\ (trace[r] # << >> /\ Last(trace[r]) = "execute_sql" /\ pc[r] \in Nodes) =>
         pc[r] = IF Interpretable(st[r]) THEN "interpret_results" ELSE "handle_error"

C10_Witness ==
  \E r \in Runs :
    /\ \E i \in 1..Len(calls[r]) : calls[r][i].c = "interpreter"
    /\ Returned(r)
    /\ IsSet(Val(result[r]).finalResponse)

\* the node `n` was applied to the snapshot rstate
AppliedNode(n) == IsSet(applied) /\ Val(applied).node = n

\* sqlQuery, queryExplanation and sqlConfidence of a state
Translation(s) == <<s.sqlQuery, s.queryExplanation, s.sqlConfidence>>

\* the precondition of Experiment: sqlQuery and schema present
ExperimentReady(s) == ~FalsyQuery(s.sqlQuery) /\ IsSet(s.schema)

\* the generator gave nothing to choose from: it threw, or returned no alternatives
NothingToChoose(o) ==
  o.threw \/ ~IsSet(o.alternatives) \/ Val(o.alternatives) = << >>

\* C11: when the alternative generator throws or returns no alternatives, or
\* sqlQuery or schema is missing, Experiment returns without throwing, leaves
\* error, sqlQuery, queryExplanation and sqlConfidence as they were, and the
\* graph runs Execute next.
C11_ExperimentNeverFatal ==
  (AppliedNode("experiment_alternatives")
     /\ (NothingToChoose(Val(applied).o) \/ ~ExperimentReady(rstate))) =>
    /\ ~Val(applied).res.threw
    /\ Val(applied).res.s.error = rstate.error
    /\ Translation(Val(applied).res.s) = Translation(rstate)
    /\ Val(applied).next = "execute_sql"

C11_Witness ==
  /\ AppliedNode("experiment_alternatives")
  /\ Val(applied).o.threw
  /\ ExperimentReady(rstate)
  /\ ~HasError(rstate)
  /\ Val(applied).res.ct = {"generator"}
  /\ Val(applied).next = "execute_sql"

\* the greatest confidence among the alternatives
MaxAltConfidence(alts) ==
  CHOOSE m \in {alts[i].confidence : i \in 1..Len(alts)} :
    \A i \in 1..Len(alts) : alts[i].confidence <= m

\* the current confidence, an absent one counting as 0
CurrentConfidence(s) == IF IsSet(s.sqlConfidence) THEN Val(s.sqlConfidence) ELSE 0

\* C12: Experiment overwrites sqlQuery, queryExplanation and sqlConfidence
\* exactly when the greatest confidence among the returned alternatives is
\* strictly greater than the current confidence (absent counting as 0); the
\* three fields then come from the first alternative, in list order, with
\* that confidence.  Every node other than Experiment and Translate leaves the
\* three fields as they were.
C12_BestAlternative ==
  /\ (AppliedNode("experiment_alternatives") /\ ExperimentReady(rstate)
         /\ ~NothingToChoose(Val(applied).o)) =>
       LET alts == Val(Val(applied).o.alternatives)
           m == MaxAltConfidence(alts)
           first == CHOOSE i \in 1..Len(alts) :
                      /\ alts[i].confidence = m
                      /\ \A j \in 1..(i - 1) : alts[j].confidence < m
           after == Val(applied).res.s
       IN  IF m > CurrentConfidence(rstate)
           THEN Translation(after) =
                  <<Some(alts[first].query), Some(alts[first].explanation),
                    Some(alts[first].confidence)>>
           ELSE Translation(after) = Translation(rstate)
  /\ (IsSet(applied)
         /\ Val(applied).node \notin {"experiment_alternatives", "nl_to_sql"}) =>
       Translation(Val(applied).res.s) = Translation(rstate)

\* two alternatives share the greatest confidence, which beats an absent one
C12_Witness ==
  /\ AppliedNode("experiment_alternatives")
  /\ ExperimentReady(rstate)
  /\ ~IsSet(rstate.sqlConfidence)
  /\ ~NothingToChoose(Val(applied).o)
  /\ LET alts == Val(Val(applied).o.alternatives)
     IN  /\ Len(alts) = 2
         /\ alts[1].confidence = alts[2].confidence
         /\ alts[1].query # alts[2].query
         /\ Val(applied).res.s.sqlQuery = Some(alts[1].query)

\* the refusal the executor owes to a call with these inputs, << >> when it owes none
RefusalFor(c) ==
  IF ~c.v THEN Some("Query must be validated before execution")
  ELSE IF c.k = "HIGH" THEN Some("High-risk queries are not allowed to execute")
  ELSE IF ~StartsWithSelect(c.q) THEN Some("Only SELECT queries are allowed")
  ELSE Undefined

C14_FailedExecutionReported ==
  \A r \in Runs :
    (Returned(r) /\ ~sinkThrew[r] /\ IsSet(Val(result[r]).executionResult)
       /\ ~Val(Val(result[r]).executionResult).success) =>
      /\ HasError(Val(result[r]))
      /\ Val(Val(Val(result[r]).executionResult).error) \in Range(Val(result[r]).error)

\* the stages run so far: each at most once, at most six, nothing after HandleError
BoundedTrace(r) ==
  /\ Len(trace[r]) <= 6
  /\ \A i, j \in 1..Len(trace[r]) : trace[r][i] = trace[r][j] => i = j
  /\ \A i \in 1..Len(trace[r]) : trace[r][i] = "handle_error" => i = Len(trace[r])
  /\ (trace[r] # << >> /\ Last(trace[r]) = "handle_error") => pc[r] \notin Nodes

\* C15: every invoked run comes to an end, and returns unless a sink call
\* threw; it executes each stage at most once and at most six stages, and no
\* stage runs after HandleError.
C15_Terminates ==
  /\ [](\A r \in Runs : BoundedTrace(r))
  /\ <>(\A r \in active : Returned(r) \/ (Finished(r) /\ sinkThrew[r]))

C15_Witness ==
  \E r \in Runs :
    /\ Returned(r)
    /\ Len(trace[r]) = 6
    /\ Last(trace[r]) = "handle_error"

\* the responses run r was given are those of the success path: the schema
\* loaded, a SELECT translated with confidence >= 70, a verdict valid,
\* execute-recommended and not HIGH, rows from the database, an interpretation
SuccessResponses(r) ==
  /\ IsSet(resp[r].schema) => ~Val(resp[r].schema).threw
  /\ IsSet(resp[r].translator)
  /\ ~AgentConvertNLToSQL(Val(resp[r].translator)).threw
  /\ Val(resp[r].translator).confidence >= ConfidenceThreshold
  /\ IsSet(resp[r].validator) =>
       /\ ~Val(resp[r].validator).threw
       /\ Val(resp[r].validator).isValid
       /\ Val(resp[r].validator).shouldExecute
       /\ Val(resp[r].validator).riskLevel # "HIGH"
  /\ IsSet(resp[r].executor) => Val(resp[r].executor).kind = "rows"
  /\ IsSet(resp[r].interpreter) => ~Val(resp[r].interpreter).threw

SuccessPath ==
  <<"load_schema", "nl_to_sql", "validate_sql", "execute_sql", "interpret_results">>

\* C16: a run given the responses of the success path (no sink call throwing)
\* executes exactly SchemaLoad, Translate, Validate, Execute, Interpret in
\* that order and returns a state with no error, a successful execution
\* result, the interpreter's output as finalResponse and retryCount 0.
C16_SuccessPath ==
  \A r \in Runs :
    (Returned(r) /\ ~sinkThrew[r] /\ SuccessResponses(r)) =>
      /\ trace[r] = SuccessPath
      /\ ~HasError(Val(result[r]))
      /\ IsSet(Val(result[r]).executionResult)
      /\ Val(Val(result[r]).executionResult).success
      /\ IsSet(resp[r].interpreter)
      /\ Val(result[r]).finalResponse =
           Some([summary |-> Val(resp[r].interpreter).summary,
                 shows |-> Val(resp[r].interpreter).shows])
      /\ Val(result[r]).retryCount = Some(0)

\* confidence exactly at the threshold, a MEDIUM risk verdict, a session
C16_Witness ==
  \E r \in Runs :
    /\ Returned(r) /\ ~sinkThrew[r] /\ SuccessResponses(r)
    /\ TruthyStr(args[r].sessionId)
    /\ Val(resp[r].translator).confidence = ConfidenceThreshold
    /\ Val(resp[r].validator).riskLevel = "MEDIUM"
    /\ trace[r] = SuccessPath

\* C17: for every state processQuery returned (no sink call throwing), the
\* service response has success true exactly when the state has no error and
\* a finalResponse; when the state has an error the response has success
\* false, no visualizations and that error, whatever else the state holds.
C17_ErrorIsAuthoritative ==
  \A r \in Runs :
    (IsSet(response[r]) /\ Returned(r) /\ ~sinkThrew[r]) =>
      LET s == Val(result[r])
          a == Val(response[r])
      IN  /\ ~a.raised
          /\ a.success <=> (~HasError(s) /\ IsSet(s.finalResponse))
          /\ HasError(s) =>
               /\ ~a.success
               /\ a.visualizations = << >>
               /\ a.error = s.error

\* an error set by Interpret, on top of a successful execution result
C17_Witness ==
  \E r \in Runs :
    /\ IsSet(response[r]) /\ Returned(r) /\ ~sinkThrew[r]
    /\ TruthyStr(args[r].sessionId)
    /\ HasError(Val(result[r]))
    /\ IsSet(Val(result[r]).executionResult)
    /\ Val(Val(result[r]).executionResult).success
    /\ ~Val(response[r]).success
    /\ Val(response[r]).error = Val(result[r]).error

\* the response collaborator c gave in the log rs; a collaborator that was not
\* called gave none, and the node does not depend on it
Given(rs, c, outcomes) ==
  IF IsSet(rs[c]) THEN Val(rs[c]) ELSE CHOOSE o \in outcomes : TRUE

\* the result of `node` on state s given the responses rs, no sink call throwing
NodeResult(node, s, rs) ==
  CASE node = "load_schema" -> loadSchema(s, Given(rs, "schema", SchemaOutcomes), {})
    [] node = "nl_to_sql" -> convertNLToSQL(s, Given(rs, "translator", LLMOutcomes), {})
    [] node = "validate_sql" -> validateSQL(s, Given(rs, "validator", ValidatorOutcomes), {})
    [] node = "experiment_alternatives" ->
         experimentWithAlternatives(s, Given(rs, "generator", GeneratorOutcomes), {})
    [] node = "execute_sql" -> executeSQL(s, Given(rs, "executor", ExecutorOutcomes), {})
    [] node = "interpret_results" ->
         interpretResults(s, Given(rs, "interpreter", InterpreterOutcomes), {})
    [] OTHER -> handleError(s)

\* workflow.invoke on its own: the first n nodes run from `node` on state s
\* with the responses rs: the nodes run, the state reached, what comes next
RECURSIVE RunAlone(_, _, _, _)
RunAlone(s, node, rs, n) ==
  IF n = 0 \/ node \notin Nodes
  THEN [trace |-> << >>, s |-> s, pc |-> node, msg |-> ""]
  ELSE LET res == CHOOSE x \in {NodeResult(node, s, rs)} : TRUE
       IN  IF res.threw
           THEN [trace |-> <<node>>, s |-> s, pc |-> "threw", msg |-> res.msg]
           ELSE LET rest == CHOOSE x \in {RunAlone(res.s, NextNode(node, res.s), rs, n - 1)} : TRUE
                IN  [rest EXCEPT !.trace = <<node>> \o @]

\* processQuery on its own with the arguments a and the responses rs
ProcessQueryAlone(a, rs) ==
  LET whole == CHOOSE x \in {RunAlone([InitialState(a.question) EXCEPT !.sessionId = a.sessionId],
                                      "load_schema", rs, Cardinality(Nodes))} : TRUE
  IN  [trace |-> whole.trace,
       result |-> IF whole.pc = "threw"
                  THEN [InitialState(a.question)
                          EXCEPT !.error = <<"Workflow execution failed: ", whole.msg>>]
                  ELSE whole.s]

\* what belongs to invocation r
RunView(r) ==
  <<pc[r], st[r], args[r], result[r], exc[r], trace[r], emits[r], calls[r], threwAt[r],
    resp[r], response[r]>>

\* so far, run r did what it would have done alone with the same responses
AsAlone(r) ==
  LET n == Len(trace[r])
      alone == CHOOSE x \in {RunAlone([InitialState(args[r].question)
                                         EXCEPT !.sessionId = args[r].sessionId],
                                      "load_schema", resp[r], n)} : TRUE
      whole == CHOOSE x \in {ProcessQueryAlone(args[r], resp[r])} : TRUE
  IN  /\ trace[r] = alone.trace
      /\ pc[r] \in Nodes \cup {END, "threw"} => (pc[r] = alone.pc /\ st[r] = alone.s)
      /\ Returned(r) => (trace[r] = whole.trace /\ result[r] = Some(whole.result))
      /\ IsSet(response[r]) => Val(response[r]) = ServiceResponse(whole.result)

\* a step changes what belongs to one invocation only
OneRunPerStep ==
  \A r \in active, q \in active :
    (r # q /\ RunView(r)' # RunView(r)) => RunView(q)' = RunView(q)

\* C18: whatever the interleaving of two invocations with distinct sessions,
\* each one's sequence of stages, its state after every stage, the state it
\* returns and the response built from it are those of the same invocation
\* made alone with the same collaborator responses (for an invocation none of
\* whose sink calls threw), and no step of one invocation changes anything
\* that belongs to the other.
C18_ConcurrentRunsIndependent ==
  /\ [](\A r \in active : (pc[r] # "idle" /\ ~sinkThrew[r]) => AsAlone(r))
  /\ [][OneRunPerStep]_vars

\* both invocations in flight, each after two stages or more, in different states
C18_Witness ==
  /\ active = {"A", "C"}
  /\ \A r \in active : pc[r] \in Nodes /\ Len(trace[r]) >= 2
  /\ st["A"].sqlQuery # st["C"].sqlQuery
  /\ pc["A"] # pc["C"]

\* the translator failed in invocation r
TranslatorFailed(r) ==
  IsSet(resp[r].translator) /\ Val(resp[r].translator).threw

\* the error of state s carries the exhaustion text of handleError
Exhausted(s) ==
  \E i \in DOMAIN s.error :
    s.error[i] = "Maximum retry attempts exceeded. Original error: "

\* C19: when three consecutive invocations each have the translator fail, the
\* third one returns a state whose error contains 'Maximum retry attempts
\* exceeded'.
C19_RetryExhaustion ==
  (/\ active = Runs
   /\ \A r \in Runs : Returned(r) /\ TranslatorFailed(r)
   /\ \A q \in Before("A") : IsSet(response[q]))
    => Exhausted(Val(result["A"]))

\* the edges of the graph, whatever the state: __start__ is written "idle"
Edges ==
  {<<"idle", "load_schema">>, <<"load_schema", "nl_to_sql">>,
   <<"nl_to_sql", "validate_sql">>, <<"nl_to_sql", "handle_error">>,
   <<"validate_sql", "execute_sql">>, <<"validate_sql", "experiment_alternatives">>,
   <<"validate_sql", "handle_error">>, <<"experiment_alternatives", "execute_sql">>,
   <<"execute_sql", "interpret_results">>, <<"execute_sql", "handle_error">>,
   <<"interpret_results", END>>, <<"handle_error", END>>}

\* the node run before position i of the trace tr
Previous(tr, i) == IF i = 1 THEN "idle" ELSE tr[i - 1]

\* the stages run so far by r, followed by the one that comes next, if any
PathOf(r) ==
  IF pc[r] \in Nodes \cup {END} THEN Append(trace[r], pc[r]) ELSE trace[r]

\* C20: the stages of a run form a path of the graph: SchemaLoad first and
\* Translate second, even after a failed SchemaLoad; Validate is entered only
\* from a Translate that left no error; Experiment only from Validate, and
\* Execute is what follows it (and does follow it when no sink call threw);
\* Execute only from Validate or Experiment; after HandleError and Interpret
\* comes END.
C20_PathOfGraph ==
  \A r \in Runs :
    LET path == PathOf(r)
    IN  /\ \A i \in DOMAIN path : <<Previous(path, i), path[i]>> \in Edges
        /\ Len(path) >= 1 => path[1] = "load_schema"
        /\ Len(path) >= 2 => path[2] = "nl_to_sql"
        /\ pc[r] = "validate_sql" => (Last(trace[r]) = "nl_to_sql" /\ ~HasError(st[r]))
        /\ \A i \in DOMAIN path :
             /\ path[i] = "experiment_alternatives" =>
                  (path[i - 1] = "validate_sql" /\ (i < Len(path) => path[i + 1] = "execute_sql"))
             /\ path[i] = "execute_sql" =>
                  path[i - 1] \in {"validate_sql", "experiment_alternatives"}
             /\ path[i] \in {"handle_error", "interpret_results"} =>
                  (i < Len(path) => (i + 1 = Len(path) /\ path[i + 1] = END))
        /\ (trace[r] # << >> /\ Last(trace[r]) = "experiment_alternatives"
               /\ ~sinkThrew[r]) => pc[r] = "execute_sql"
        /\ (trace[r] # << >> /\ Last(trace[r]) \in {"handle_error", "interpret_results"}) =>
             pc[r] \notin Nodes

\* a run whose SchemaLoad failed: Translate ran second all the same, left an
\* error, and HandleError ended the run
C20_Witness ==
  \E r \in Runs :
    /\ Returned(r) /\ ~sinkThrew[r]
    /\ IsSet(resp[r].schema) /\ Val(resp[r].schema).threw
    /\ HasError(Val(result[r]))
    /\ trace[r] = <<"load_schema", "nl_to_sql", "handle_error">>

\* the number of times HandleError has run in r
HandleErrorRuns(r) ==
  Cardinality({i \in DOMAIN trace[r] : trace[r][i] = "handle_error"})

\* retryCount counts the runs of HandleError, is 0 or 1, and no error carries
\* the exhaustion text
RetryCountBounded(r) ==
  /\ st[r].retryCount = Some(HandleErrorRuns(r))
  /\ HandleErrorRuns(r) \in {0, 1}
  /\ ~Exhausted(st[r])
  /\ Returned(r) =>
       /\ Val(result[r]).retryCount \in {Some(0), Some(1)}
       /\ ~Exhausted(Val(result[r]))

\* a step of HandleError adds 1 and keeps the error; no other step changes
\* retryCount
RetryCountStep ==
  \A r \in Runs :
    IF pc[r] = "handle_error" /\ pc'[r] # pc[r]
    THEN /\ st'[r].retryCount = Some(Val(st[r].retryCount) + 1)
         /\ st'[r].error = st[r].error
    ELSE st'[r].retryCount = st[r].retryCount

\* C21: retryCount is 0 at state creation, only HandleError changes it, by
\* adding 1, so it is 0 or 1 in every state of a run; no error is ever
\* rewritten to the exhaustion message and HandleError leaves the error as
\* it found it.
C21_RetryCountIsZeroOrOne ==
  /\ [](\A r \in Runs : RetryCountBounded(r))
  /\ [][RetryCountStep]_vars

\* a run that failed at Translate and went through HandleError
C21_Witness ==
  \E r \in Runs :
    /\ Returned(r) /\ ~sinkThrew[r]
    /\ TranslatorFailed(r)
    /\ Last(trace[r]) = "handle_error"
    /\ Val(result[r]).retryCount = Some(1)
    /\ Val(result[r]).error =
         <<"NL to SQL conversion failed: ", AgentConvertNLToSQL(Val(resp[r].translator)).msg>>

\* no step of a run empties an error
ErrorKept ==
  \A r \in Runs : HasError(st[r]) => HasError(st'[r])

\* C22: once error is non-empty after a stage of a run, it is non-empty in
\* every later state of the run and in the state processQuery returns.
C22_ErrorSticky ==
  /\ [][ErrorKept]_vars
  /\ [](\A r \in Runs : (Returned(r) /\ HasError(st[r])) => HasError(Val(result[r])))

\* the validator failed; HandleError ran on the error and the run returned it
C22_Witness ==
  \E r \in Runs :
    /\ Returned(r) /\ ~sinkThrew[r]
    /\ IsSet(resp[r].validator) /\ Val(resp[r].validator).threw
    /\ trace[r] = <<"load_schema", "nl_to_sql", "validate_sql", "handle_error">>
    /\ HasError(Val(result[r]))
    /\ Val(result[r]).error[1] = "SQL validation failed: "

\* the nodes followed by a conditional edge
RoutedNodes == {"nl_to_sql", "validate_sql", "execute_sql"}

\* a step of a run whose state has an error calls no collaborator, and a
\* routing decision taken on a state with an error selects handle_error
ErrorPreferred ==
  \A r \in Runs :
    /\ HasError(st[r]) => calls'[r] = calls[r]
    /\ (pc[r] \in RoutedNodes /\ pc'[r] \in Nodes \cup {END} /\ HasError(st'[r])) =>
         pc'[r] = "handle_error"

\* C23: once error is non-empty, no collaborator is called in the rest of the
\* run, and the next routing decision taken selects HandleError.
C23_ErrorPrefersHandleError ==
  [][ErrorPreferred]_vars

\* SchemaLoad failed; Translate ran without calling the translator and the
\* routing after it chose HandleError
C23_Witness ==
  \E r \in Runs :
    /\ pc[r] = "handle_error"
    /\ trace[r] = <<"load_schema", "nl_to_sql">>
    /\ IsSet(resp[r].schema) /\ Val(resp[r].schema).threw
    /\ HasError(st[r])
    /\ \A i \in DOMAIN calls[r] : calls[r][i].c = "schema"

\* the text a stage puts before the message of its collaborator's failure
StagePrefix(c) ==
  CASE c = "schema" -> "Failed to load database schema: "
    [] c = "translator" -> "NL to SQL conversion failed: "
    [] c = "validator" -> "SQL validation failed: "
    [] c = "executor" -> "SQL execution failed: "
    [] OTHER -> "Result interpretation failed: "

\* the collaborators whose failure a stage reports as an error
Reporting == {"schema", "translator", "validator", "executor", "interpreter"}

\* C24: when the collaborator of a stage throws (no sink call throwing), the
\* error of the returned state starts with that stage's prefix: no later
\* stage replaces the message of the stage that failed first.
C24_FirstFailureReported ==
  \A r \in Runs :
    (Returned(r) /\ ~sinkThrew[r]) =>
      \A c \in threwAt[r] \cap Reporting :
        /\ HasError(Val(result[r]))
        /\ Val(result[r]).error[1] = StagePrefix(c)

\* a field that `node` requires is missing from s
Missing(node, s) ==
  CASE node = "nl_to_sql" -> ~IsSet(s.schema)
    [] node = "validate_sql" -> FalsyQuery(s.sqlQuery) \/ ~IsSet(s.schema)
    [] node = "experiment_alternatives" -> FalsyQuery(s.sqlQuery) \/ ~IsSet(s.schema)
    [] node = "execute_sql" -> FalsyQuery(s.sqlQuery) \/ ~IsSet(s.validationResult)
    [] node = "interpret_results" -> ~IsSet(s.executionResult) \/ FalsyQuery(s.sqlQuery)
    [] OTHER -> FALSE

\* the error `node` returns for a missing field
PreconditionError(node) ==
  CASE node = "nl_to_sql" -> <<"Database schema not available">>
    [] node = "validate_sql" -> <<"SQL query or schema missing for validation">>
    [] node = "execute_sql" -> <<"SQL query or validation result missing">>
    [] OTHER -> <<"Execution result or SQL query missing for interpretation">>

\* C25: a stage applied to a state that lacks a field it requires returns
\* without calling its collaborator: Translate, Validate, Execute and
\* Interpret with their descriptive error and nothing else changed,
\* Experiment with the state as it was.
C25_StagePreconditions ==
  (IsSet(applied) /\ Missing(Val(applied).node, rstate)) =>
    /\ ~Val(applied).res.threw
    /\ Val(applied).res.cl = << >>
    /\ Val(applied).res.s =
         IF Val(applied).node = "experiment_alternatives"
         THEN rstate
         ELSE [rstate EXCEPT !.error = PreconditionError(Val(applied).node)]

\* Validate applied to a state with a query and no schema
C25_Witness ==
  /\ AppliedNode("validate_sql")
  /\ ~FalsyQuery(rstate.sqlQuery)
  /\ ~IsSet(rstate.schema)
  /\ Val(applied).res.s.error = <<"SQL query or schema missing for validation">>
  /\ Val(applied).res.cl = << >>

\* C26: Interpret applied to a state that has executionResult and sqlQuery
\* but whose executionResult.success is false returns an error and does not
\* call the interpreter.
C26_InterpretRechecksSuccess ==
  (/\ AppliedNode("interpret_results")
   /\ IsSet(rstate.executionResult)
   /\ ~FalsyQuery(rstate.sqlQuery)
   /\ ~Val(rstate.executionResult).success) =>
    /\ HasError(Val(applied).res.s)
    /\ Val(applied).res.cl = << >>

\* the fields of s depend on one another as the stages produce them
FieldsInOrder(s) ==
  /\ s.originalQuestion # ""
  /\ IsSet(s.retryCount)
  /\ IsSet(s.sqlQuery) => IsSet(s.schema)
  /\ IsSet(s.validationResult) => IsSet(s.sqlQuery)
  /\ IsSet(s.alternativeQueries) => IsSet(s.validationResult)
  /\ IsSet(s.executionResult) => IsSet(s.validationResult)
  /\ IsSet(s.finalResponse) =>
       /\ IsSet(s.executionResult)
       /\ Val(s.executionResult).success
       /\ ~HasError(s)

\* C27: in every state of a run, and in the state it returns, question and
\* retryCount are present, sqlQuery implies schema, validation implies
\* sqlQuery, alternatives and executionResult imply validation, and
\* finalResponse implies a successful executionResult and no error.
C27_FieldDependencies ==
  \A r \in active :
    /\ FieldsInOrder(st[r])
    /\ Returned(r) => FieldsInOrder(Val(result[r]))

\* a run through Experiment that returned a state with every field present
C27_Witness ==
  \E r \in active :
    /\ Returned(r)
    /\ LET s == Val(result[r])
       IN  /\ IsSet(s.schema) /\ IsSet(s.sqlQuery) /\ IsSet(s.validationResult)
           /\ IsSet(s.alternativeQueries) /\ IsSet(s.executionResult)
           /\ IsSet(s.finalResponse)

\* the fields a stage populates
Populated == {"schema", "sqlQuery", "validationResult", "executionResult"}

\* C28: the state processQuery returns has the question and the sessionId of
\* the call, and every field among schema, sqlQuery, validation and
\* executionResult that a stage of the run populated is still present in it.
C28_StateOnlyExtended ==
  \A r \in active :
    Returned(r) =>
      /\ Val(result[r]).originalQuestion = args[r].question
      /\ Val(result[r]).sessionId = args[r].sessionId
      /\ \A f \in Populated : IsSet(st[r][f]) => IsSet(Val(result[r])[f])

\* C29: every execution result with success = true has at most MAX_ROWS rows,
\* whatever query the executor accepted, one that contains LIMIT or an
\* aggregate included.
C29_RowCap ==
  \A r \in active :
    (IsSet(st[r].executionResult) /\ Val(st[r].executionResult).success) =>
      /\ Val(st[r].executionResult).rowCount <= MAX_ROWS
      /\ OrZero(Val(st[r].executionResult).data) <= MAX_ROWS

\* the output is the one the agent gives for some answer of the database
AgentOutput(input, out) ==
  \E o \in ExecutorOutcomes : o.kind # "agent_throw" /\ out = AgentExecuteSQL(input, o).out

\* when the timer fires during the race the call returns the timeout failure;
\* once the call has returned, nothing changes its output
RaceStep ==
  /\ (race.phase = "racing" /\ race.timer = "armed" /\ race'.timer = "fired") =>
       (race'.phase = "returned" /\ race'.out = Some(Refusal(TimeoutMessage)))
  /\ race.phase = "returned" => (race'.phase = "returned" /\ race'.out = race.out)

\* C30: once the executor has passed a query to the database its call
\* returns an output in every case; if the timer fires before the database
\* has answered, the output is success = false with the timeout message, and
\* an answer of the database that arrives afterwards does not change it.
C30_ExecutorTimeout ==
  /\ (race.phase = "racing") ~> (race.phase = "returned")
  /\ [](race.phase = "returned" => (IsSet(race.out) /\ AgentOutput(race.input, Val(race.out))))
  /\ [][RaceStep]_vars

\* the timer fired first and the database answered afterwards
C30_Witness ==
  /\ race.phase = "returned"
  /\ race.timer = "fired"
  /\ race.db = "resolved"
  /\ race.out = Some(Refusal(TimeoutMessage))

\* the place of a stage's events in the order the stages execute
StageRank(step) ==
  CASE step = "schema_loading" -> 1
    [] step = "nl_to_sql" -> 2
    [] step = "sql_validation" -> 3
    [] step = "experimentation" -> 4
    [] step = "sql_execution" -> 5
    [] step = "result_interpretation" -> 6
    [] OTHER -> 7

\* e is the workflow-complete or the workflow-error event
Terminal(e) == e.step = "workflow"

\* the events ev are in the order of the stages, each stage starts before it
\* reports anything else, and nothing of a stage follows a terminal event
EventsOrdered(ev) ==
  /\ \A i, j \in DOMAIN ev : i < j => StageRank(ev[i].step) <= StageRank(ev[j].step)
  /\ \A j \in DOMAIN ev :
       (~Terminal(ev[j]) /\ ev[j].status # "starting") =>
         \E i \in 1..(j - 1) : ev[i] = Ev(ev[j].step, "starting")
  /\ \A i, j \in DOMAIN ev : (i < j /\ Terminal(ev[i])) => Terminal(ev[j])

\* C31: the progress events of a run come in the order the stages execute;
\* for each stage 'starting' precedes its 'processing', 'completed' or
\* 'error'; no stage event follows the workflow-complete or workflow-error
\* event.
C31_EventsOrdered ==
  \A r \in active : EventsOrdered(emits[r])

\* a run with a session through all six stages, answered by the service
C31_Witness ==
  \E r \in active :
    /\ IsSet(response[r]) /\ ~sinkThrew[r]
    /\ TruthyStr(args[r].sessionId)
    /\ trace[r] = <<"load_schema", "nl_to_sql", "validate_sql",
                    "experiment_alternatives", "execute_sql", "interpret_results">>
    /\ \A k \in 1..6 : \E i \in DOMAIN emits[r] : StageRank(emits[r][i].step) = k
    /\ Terminal(Last(emits[r]))

\* the number of events of `step` in ev whose status is in `statuses`
EventCount(ev, step, statuses) ==
  Cardinality({i \in DOMAIN ev : ev[i].step = step /\ ev[i].status \in statuses})

StageSteps ==
  {"schema_loading", "nl_to_sql", "sql_validation", "experimentation", "sql_execution",
   "result_interpretation"}

C32_ExecutorGetsValidatedText ==
  \A r \in active :
    \A i \in DOMAIN calls[r] :
      calls[r][i].c = "executor" =>
        /\ \E j \in 1..(i - 1) :
             calls[r][j].c = "validator" /\ calls[r][j].q = calls[r][i].q
        /\ IsSet(resp[r].validator)
        /\ calls[r][i].v = Val(resp[r].validator).isValid
        /\ calls[r][i].k = Val(resp[r].validator).riskLevel

\* the validator answered in run r (validationAgent.validateSQL resolved)
Validated(r) == IsSet(resp[r].validator) /\ ~Val(resp[r].validator).threw

\* a query of run r was passed to databaseService.executeReadOnlyQuery
DatabaseReached(r) == \E i \in DOMAIN calls[r] : calls[r][i].c = "database"

\* processQuery of run r returned a state with a finalResponse
ReturnedFinalResponse(r) ==
  pc[r] = "returned" /\ IsSet(result[r]) /\ IsSet(Val(result[r]).finalResponse)

\* C33: in every run in which the validator answered shouldExecute == false,
\* no query is passed to the database and the state processQuery returns has
\* no finalResponse.
C33_ShouldExecuteFalsePreventsExecution ==
  \A r \in active :
    (Validated(r) /\ ~Val(resp[r].validator).shouldExecute) =>
      /\ ~DatabaseReached(r)
      /\ ~ReturnedFinalResponse(r)

\* the text in state.sqlQuery of run r is not the text the validator saw
QueryReplaced(r) ==
  /\ IsSet(st[r].sqlQuery)
  /\ \E i \in DOMAIN calls[r] :
       calls[r][i].c = "validator" /\ calls[r][i].q # Val(st[r].sqlQuery)

TerminalEvents(ev) == {i \in DOMAIN ev : Terminal(ev[i])}

\* C35: once a streamed call (a request with a sessionId, no sink call
\* throwing) has returned its response, exactly one terminal event was
\* emitted to the session, and it is workflow-complete if and only if the
\* response has success == true.
C35_OneTerminalEvent ==
  \A r \in active :
    (TruthyStr(args[r].sessionId) /\ IsSet(response[r]) /\ ~sinkThrew[r]) =>
      /\ Cardinality(TerminalEvents(emits[r])) = 1
      /\ \A i \in TerminalEvents(emits[r]) :
           (emits[r][i].status = "complete") <=> Val(response[r]).success

\* a socket is registered under the sessionId of run r
Registered(r) == SessionsGet(gateway.sessions, args[r].sessionId) # {}

\* a socket receives something in a step only if it is the socket registered
\* under the sessionId of the run that emitted, and it receives that run's events
DeliveredToOwner ==
  \A k \in Sockets :
    gateway'.delivered[k] # gateway.delivered[k] =>
      \E r \in active :
        /\ SessionsGet(gateway.sessions, args[r].sessionId) = {k}
        /\ gateway'.delivered[k] = gateway.delivered[k] \o NewEvents(r)

\* the events of a run whose client is gone reach no socket, and emitting
\* them raises nothing: no sink call throws, the run neither throws nor raises
DroppedQuietly ==
  \A r \in active :
    (gateway.on /\ ~Registered(r)) =>
      /\ emits'[r] # emits[r] => gateway'.delivered = gateway.delivered
      /\ sinkThrew'[r] = sinkThrew[r]
      /\ pc'[r] \in {"threw", "raised"} => pc'[r] = pc[r]

\* the client of run r disconnected
Disconnected(r) == gateway.on /\ args[r].sessionId \in gateway.gone

\* C37: an event emitted for a sessionId is delivered only to the socket
\* registered under it at that moment; once the client of a run has
\* disconnected, the run's later events are dropped without raising, and the
\* run (no sink call having thrown before) executes the stages and returns
\* the state and the response of the same run with a sink that never throws.
C37_GatewayIsolation ==
  /\ [](\A r \in active : (Disconnected(r) /\ pc[r] # "idle" /\ ~sinkThrew[r]) => AsAlone(r))
  /\ [][DeliveredToOwner /\ DroppedQuietly]_vars

\* the client of A received the first events and disconnected during the run,
\* another client is connected and received nothing, the run went on through
\* Interpret and the service answered with success
C37_Witness ==
  /\ Disconnected("A")
  /\ SessionsGet(gateway.sessions, "session-b") # {}
  /\ gateway.delivered["session-b"] = << >>
  /\ gateway.delivered["session-a"] # << >>
  /\ Len(gateway.delivered["session-a"]) < Len(emits["A"])
  /\ ~Terminal(Last(gateway.delivered["session-a"]))
  /\ ReturnedFinalResponse("A")
  /\ IsSet(response["A"]) /\ Val(response["A"]).success
  /\ ~sinkThrew["A"]

====
